---------------------------- MODULE Spec2Model ----------------------------
(***************************************************************************)
(* A model of the resolver and the tree-walking evaluator of lox-rust.     *)
(*                                                                         *)
(* The interpreter state is the one of src/interpreter/mod.rs: a heap of   *)
(* environment frames (Rc<RefCell<Environment>>, here a sequence indexed   *)
(* by frame id), the current-frame pointer `environment`, the globals      *)
(* frame, and the resolution map `locals` keyed by Token.  The resolver    *)
(* state is the one of src/interpreter/resolver.rs: the scope stack, the   *)
(* enclosing-function kind and resolve_all's had_error flag.               *)
(*                                                                         *)
(* The driver is Lox::run of src/main.rs: a program (a parsed statement    *)
(* list) is resolved statement by statement, then executed statement by    *)
(* statement.  `trace` models the tracing events the code emits (scope     *)
(* enter/leave, lookups, assignments); the properties read it.             *)
(***************************************************************************)
EXTENDS Integers, Sequences, FiniteSets, TLC

\* Depth of block nesting in the generated program families.
MaxNest == 2
\* Iterations a while loop of a generated program may take.
MaxLoop == 3
MaxLines == 2

(***************************************************************************)
(* Values: object.rs                                                       *)
(***************************************************************************)
Num(n) == [k |-> "Number", n |-> n]
Str(x) == [k |-> "String", s |-> x]
Bool(b) == [k |-> "Boolean", b |-> b]
Null == [k |-> "Null"]

IsLiteral(o) == o.k \in {"Number", "String", "Boolean", "Null"}
IsCallable(o) == o.k = "Callable"
IsInstance(o) == o.k = "Instance"

LoxClock == [k |-> "Callable", c |-> "clock"]
LoxAssertEq == [k |-> "Callable", c |-> "assert_eq"]
LoxFunction(declaration, closure) ==
    [k |-> "Callable", c |-> "fun", declaration |-> declaration, closure |-> closure]
LoxClass(name, methods) ==
    [k |-> "Callable", c |-> "class", name |-> name, methods |-> methods]
\* HashMap::new()
EmptyMap == [x \in {} |-> Null]
\* an instance that starts out with a field y
LoxInstanceSeeded(class) ==
    [k |-> "Instance", class |-> class, fields |-> [f \in {"y"} |-> Null]]

LoxInstance(class) ==
    [k |-> "Instance", class |-> class, fields |-> EmptyMap]

\* LoxCallable::arity of each implementation
Arity(o) ==
    CASE o.c = "clock" -> 0
      [] o.c = "assert_eq" -> 2
      [] o.c = "fun" -> Len(o.declaration.params) % 256
      [] o.c = "class" -> 0

\* LoxCallable::name of each implementation
CallableName(o) ==
    CASE o.c = "clock" -> "system_clock"
      [] o.c = "assert_eq" -> "assert"
      [] o.c = "fun" -> o.declaration.name.lexeme
      [] o.c = "class" -> o.name

\* #[derive(PartialEq)] on Literal: same variant, same payload
LiteralEq(a, b) ==
    /\ a.k = b.k
    /\ CASE a.k = "Number" -> a.n = b.n
         [] a.k = "String" -> a.s = b.s
         [] a.k = "Boolean" -> a.b = b.b
         [] OTHER -> TRUE

\* impl PartialEq for Object
ObjectEq(a, b) ==
    CASE IsCallable(a) /\ IsCallable(b) ->
            CallableName(a) = CallableName(b) /\ Arity(a) = Arity(b)
      [] IsLiteral(a) /\ IsLiteral(b) -> LiteralEq(a, b)
      [] OTHER -> FALSE

\* impl PartialOrd for Literal, for Object: "Less", "Equal", "Greater" or "None"
PartialCmp(a, b) ==
    IF IsLiteral(a) /\ IsLiteral(b) /\ a.k = "Number" /\ b.k = "Number"
    THEN IF a.n < b.n THEN "Less" ELSE IF a.n = b.n THEN "Equal" ELSE "Greater"
    ELSE "None"

\* Literal::is_truthy
IsTruthy(lit) ==
    CASE lit.k = "Null" -> FALSE
      [] lit.k = "Boolean" -> lit.b
      [] OTHER -> TRUE

\* impl Display for Literal
LiteralDisplay(lit) ==
    CASE lit.k = "String" -> lit.s
      [] lit.k = "Null" -> "nil"
      [] lit.k = "Number" -> ToString(lit.n)
      [] lit.k = "Boolean" -> IF lit.b THEN "true" ELSE "false"

\* impl Display for Object (an instance's field map is shown by its size only)
Display(o) ==
    CASE IsCallable(o) -> "callable <" \o CallableName(o) \o ">"
      [] IsInstance(o) ->
            o.class.name \o " instance - "
                \o (IF DOMAIN o.fields = {} THEN "{}" ELSE "{..}")
      [] OTHER -> LiteralDisplay(o)


(***************************************************************************)
(* Tokens and the AST: token.rs, expr.rs, stmt.rs                          *)
(***************************************************************************)
\* Token::new; the scanner gives identifiers and keywords the literal Null
Token(typ, lexeme, line) ==
    [typ |-> typ, lexeme |-> lexeme, literal |-> "Null", line |-> line]
Ident(lexeme, line) == Token("Identifier", lexeme, line)

\* #[derive(PartialEq)] / impl Hash for Token: typ, lexeme, literal, line
TokenEq(a, b) ==
    /\ a.typ = b.typ
    /\ a.lexeme = b.lexeme
    /\ a.literal = b.literal
    /\ a.line = b.line

\* Expr
LiteralExpr(value) == [t |-> "Literal", value |-> value]
VariableExpr(lexeme, line) == [t |-> "Variable", name |-> Ident(lexeme, line)]
AssignExpr(lexeme, line, value) ==
    [t |-> "Assign", name |-> Ident(lexeme, line), value |-> value]
BinaryExpr(left, typ, line, right) ==
    [t |-> "Binary", left |-> left, operator |-> Token(typ, typ, line), right |-> right]
LogicalExpr(left, typ, line, right) ==
    [t |-> "Logical", left |-> left, operator |-> Token(typ, typ, line), right |-> right]
UnaryExpr(typ, line, right) ==
    [t |-> "Unary", operator |-> Token(typ, typ, line), right |-> right]
GroupingExpr(expression) == [t |-> "Grouping", expression |-> expression]
CallExpr(callee, line, arguments) ==
    [t |-> "Call", callee |-> callee, paren |-> Token("RightParen", ")", line),
     arguments |-> arguments]
GetExpr(object, lexeme, line) ==
    [t |-> "Get", object |-> object, name |-> Ident(lexeme, line)]
SetExpr(object, lexeme, line, value) ==
    [t |-> "Set", object |-> object, name |-> Ident(lexeme, line), value |-> value]
ThisExpr(line) == [t |-> "This", keyword |-> Token("This", "this", line)]

\* Stmt
ExpressionStmt(expression) == [t |-> "Expression", expression |-> expression]
PrintStmt(expression) == [t |-> "Print", expression |-> expression]
VarStmt(lexeme, line, initializer) ==
    [t |-> "Var", name |-> Ident(lexeme, line), hasInit |-> TRUE,
     initializer |-> initializer]
VarStmtNoInit(lexeme, line) ==
    [t |-> "Var", name |-> Ident(lexeme, line), hasInit |-> FALSE,
     initializer |-> LiteralExpr(Null)]
BlockStmt(statements) == [t |-> "Block", statements |-> statements]
IfStmt(condition, then_branch) ==
    [t |-> "If", condition |-> condition, then_branch |-> then_branch,
     hasElse |-> FALSE, else_branch |-> BlockStmt(<<>>)]
IfElseStmt(condition, then_branch, else_branch) ==
    [t |-> "If", condition |-> condition, then_branch |-> then_branch,
     hasElse |-> TRUE, else_branch |-> else_branch]
WhileStmt(condition, body) == [t |-> "While", condition |-> condition, body |-> body]
\* params is a sequence of parameter lexemes, all on the line of the name
FunctionStmt(lexeme, line, params, body) ==
    [t |-> "Function", name |-> Ident(lexeme, line),
     params |-> [i \in 1..Len(params) |-> Ident(params[i], line)], body |-> body]
ReturnStmt(line, value) ==
    [t |-> "Return", keyword |-> Token("Return", "return", line), hasValue |-> TRUE,
     value |-> value]
ReturnStmtNoValue(line) ==
    [t |-> "Return", keyword |-> Token("Return", "return", line), hasValue |-> FALSE,
     value |-> LiteralExpr(Null)]
ClassStmt(lexeme, line, methods) ==
    [t |-> "Class", name |-> Ident(lexeme, line), methods |-> methods]

(***************************************************************************)
(* Results: Result<Object, LoxError>.  e is "Ok" or the LoxError variant   *)
(* ("Runtime", "Internal", "Return", "Resolver"); "Panic" is a Rust panic, *)
(* which no caller catches.  m is the error's message.                     *)
(***************************************************************************)
Ok(s, v) == [s |-> s, v |-> v, e |-> "Ok", m |-> ""]
Err(s, e, m) == [s |-> s, v |-> Null, e |-> e, m |-> m]

(***************************************************************************)
(* Environment: interpreter/environment.rs.  h is the heap of frames, a    *)
(* sequence of [values, parent]; parent 0 is None.                         *)
(***************************************************************************)
\* Environment::new
EnvironmentNew == [values |-> EmptyMap, parent |-> 0]
\* Environment::with_parent
EnvironmentWithParent(enclosing) == [values |-> EmptyMap, parent |-> enclosing]

\* HashMap::insert
MapInsert(map, key, value) == (key :> value) @@ map

\* Environment::define, on a frame not yet in the heap
FrameDefine(frame, name, value) ==
    [frame EXCEPT !.values = MapInsert(@, name, value)]

\* Environment::define
Define(h, env, name, value) ==
    [h EXCEPT ![env] = FrameDefine(@, name, value)]

\* Environment::assign: this frame, then the ancestors
RECURSIVE EnvAssignOrDefine(_, _, _, _)
\* an assign that creates the binding in the outermost frame of the chain when
\* no frame has the name
EnvAssignOrDefine(h, env, name, value) ==
    IF name.lexeme \in DOMAIN h[env].values
    THEN [h |-> Define(h, env, name.lexeme, value), e |-> "Ok", m |-> "", at |-> env]
    ELSE IF h[env].parent # 0
         THEN EnvAssignOrDefine(h, h[env].parent, name, value)
         ELSE [h |-> Define(h, env, name.lexeme, value), e |-> "Ok", m |-> "",
               at |-> env]

RECURSIVE EnvAssign(_, _, _, _)
EnvAssign(h, env, name, value) ==
    IF name.lexeme \in DOMAIN h[env].values
    THEN [h |-> Define(h, env, name.lexeme, value), e |-> "Ok", m |-> "", at |-> env]
    ELSE IF h[env].parent # 0
         THEN EnvAssign(h, h[env].parent, name, value)
         ELSE [h |-> h, e |-> "Runtime", m |-> "Variable to be defined", at |-> 0]

\* Environment::get
RECURSIVE EnvGet(_, _, _)
EnvGet(h, env, name) ==
    IF name.lexeme \in DOMAIN h[env].values
    THEN [v |-> h[env].values[name.lexeme], e |-> "Ok", m |-> ""]
    ELSE IF h[env].parent # 0
         THEN EnvGet(h, h[env].parent, name)
         ELSE [v |-> Null, e |-> "Runtime", m |-> "Defined variable name"]

\* ancestor(env, distance): 0 when an unwrap of a missing parent panics
RECURSIVE Ancestor(_, _, _)
Ancestor(h, env, distance) ==
    IF distance = 0 THEN env
    ELSE IF h[env].parent = 0 THEN 0
         ELSE Ancestor(h, h[env].parent, distance - 1)

\* Environment::assign_at
EnvAssignAt(h, env, distance, name, value) ==
    IF distance = 0
    THEN [h |-> Define(h, env, name, value), e |-> "Ok", m |-> "", at |-> env]
    ELSE IF h[env].parent = 0
         THEN [h |-> h, e |-> "Panic", m |-> "unwrap on a None parent", at |-> 0]
         ELSE LET target == Ancestor(h, h[env].parent, distance - 1)
              IN IF target = 0
                 THEN [h |-> h, e |-> "Panic", m |-> "unwrap on a None parent",
                       at |-> 0]
                 ELSE [h |-> Define(h, target, name, value), e |-> "Ok", m |-> "",
                       at |-> target]

\* Environment::get_at
EnvGetAt(h, env, distance, key) ==
    IF distance = 0
    THEN IF key \in DOMAIN h[env].values
         THEN [v |-> h[env].values[key], e |-> "Ok", m |-> ""]
         ELSE [v |-> Null, e |-> "Internal", m |-> "Expected variable"]
    ELSE IF h[env].parent = 0
         THEN [v |-> Null, e |-> "Internal", m |-> "Expected a parent"]
         ELSE LET target == Ancestor(h, h[env].parent, distance - 1)
              IN IF target = 0
                 THEN [v |-> Null, e |-> "Panic", m |-> "unwrap on a None parent"]
                 ELSE IF key \in DOMAIN h[target].values
                      THEN [v |-> h[target].values[key], e |-> "Ok", m |-> ""]
                      ELSE [v |-> Null, e |-> "Internal", m |-> "Expected variable"]

(***************************************************************************)
(* The evaluator: interpreter/mod.rs, lox_function.rs, lox_class.rs,       *)
(* lox_instance.rs, native/.  s is the Interpreter: [envs, environment,    *)
(* locals, out, trace]; globals is frame 1.                                *)
(***************************************************************************)
Globals == 1

\* the tracing events of the code, kept in order
Log(s, event) == [s EXCEPT !.trace = Append(@, event)]

\* HashMap<Token, u8>::get on the resolution map: the depth, or -1 for None
LocalsGet(locals, token) ==
    IF \E key \in DOMAIN locals : TokenEq(key, token)
    THEN locals[CHOOSE key \in DOMAIN locals : TokenEq(key, token)]
    ELSE -1

\* self.environment.borrow_mut().define(name, value)
DefineHere(s, name, value) ==
    Log([s EXCEPT !.envs = Define(@, s.environment, name, value)],
        [ev |-> "define", env |-> s.environment, name |-> name])

\* LoxClass::find_method and LoxInstance::get
\* a get that answers nil for a name the instance does not have, and notes the
\* name in the field map
InstanceGetOrNil(instance, name) ==
    IF name.lexeme \in DOMAIN instance.fields
    THEN [v |-> instance.fields[name.lexeme], e |-> "Ok", m |-> "",
          fields |-> instance.fields]
    ELSE IF name.lexeme \in DOMAIN instance.class.methods
         THEN [v |-> instance.class.methods[name.lexeme], e |-> "Ok", m |-> "",
               fields |-> instance.fields]
         ELSE [v |-> Null, e |-> "Ok", m |-> "",
               fields |-> MapInsert(instance.fields, name.lexeme, Null)]

\* a get that reports a missing name as an Internal error
InstanceGetInternal(instance, name) ==
    IF name.lexeme \in DOMAIN instance.fields
    THEN [v |-> instance.fields[name.lexeme], e |-> "Ok", m |-> "",
          fields |-> instance.fields]
    ELSE IF name.lexeme \in DOMAIN instance.class.methods
         THEN [v |-> instance.class.methods[name.lexeme], e |-> "Ok", m |-> "",
               fields |-> instance.fields]
         ELSE [v |-> Null, e |-> "Internal", m |-> "no such method or field",
               fields |-> instance.fields]

\* LoxInstance::get; `fields` is the field map of the instance after the call
\* (&self: the call cannot write it)
InstanceGet(instance, name) ==
    IF name.lexeme \in DOMAIN instance.fields
    THEN [v |-> instance.fields[name.lexeme], e |-> "Ok", m |-> "",
          fields |-> instance.fields]
    ELSE IF name.lexeme \in DOMAIN instance.class.methods
         THEN [v |-> instance.class.methods[name.lexeme], e |-> "Ok", m |-> "",
               fields |-> instance.fields]
         ELSE [v |-> Null, e |-> "Runtime", m |-> "no such method or field",
               fields |-> instance.fields]

\* LoxInstance::set
\* a set that keeps the value a field already has
InstanceSetOnce(instance, name, value) ==
    IF name.lexeme \in DOMAIN instance.fields THEN instance
    ELSE [instance EXCEPT !.fields = MapInsert(@, name.lexeme, value)]

InstanceSet(instance, name, value) ==
    [instance EXCEPT !.fields = MapInsert(@, name.lexeme, value)]

\* Interpreter::lookup_variable
LookupVariable(name, s) ==
    LET distance == LocalsGet(s.locals, name)
        got == IF distance >= 0
               THEN EnvGetAt(s.envs, s.environment, distance, name.lexeme)
               ELSE EnvGet(s.envs, s.environment, name)
        s1 == Log(s, [ev |-> "lookup", name |-> name, distance |-> distance,
                      env |-> s.environment, e |-> got.e, m |-> got.m, v |-> got.v])
    IN  [s |-> s1, v |-> got.v, e |-> got.e, m |-> got.m]

\* the arithmetic of impl Add/Sub/Mul/Div for Object and for Literal; numbers are
\* integers here, and a quotient is modelled only when it is one
Arithmetic(typ, left, right) ==
    IF ~(IsLiteral(left) /\ IsLiteral(right))
    THEN [v |-> Null, e |-> "Runtime", m |-> "non-literal operands"]
    ELSE IF left.k = "Number" /\ right.k = "Number"
         THEN CASE typ = "Plus" -> [v |-> Num(left.n + right.n), e |-> "Ok", m |-> ""]
                [] typ = "Minus" -> [v |-> Num(left.n - right.n), e |-> "Ok", m |-> ""]
                [] typ = "Star" -> [v |-> Num(left.n * right.n), e |-> "Ok", m |-> ""]
                [] typ = "Slash" ->
                      IF right.n # 0 /\ left.n % right.n = 0
                      THEN [v |-> Num(left.n \div right.n), e |-> "Ok", m |-> ""]
                      ELSE [v |-> Null, e |-> "Unmodelled", m |-> "fractional quotient"]
         ELSE IF typ = "Plus" /\ left.k = "String" /\ right.k = "String"
              THEN [v |-> Str(left.s \o right.s), e |-> "Ok", m |-> ""]
              ELSE [v |-> Null, e |-> "Runtime", m |-> "mismatched operands"]

\* the match of Interpreter::eval_binary on the operator, operands evaluated
BinaryOp(typ, left, right) ==
    CASE typ = "Greater" ->
            [v |-> Bool(PartialCmp(left, right) = "Greater"), e |-> "Ok", m |-> ""]
      [] typ = "GreaterEqual" ->
            [v |-> Bool(PartialCmp(left, right) \in {"Greater", "Equal"}),
             e |-> "Ok", m |-> ""]
      [] typ = "Less" ->
            [v |-> Bool(PartialCmp(left, right) = "Less"), e |-> "Ok", m |-> ""]
      [] typ = "LessEqual" ->
            [v |-> Bool(PartialCmp(left, right) \in {"Less", "Equal"}),
             e |-> "Ok", m |-> ""]
      [] typ \in {"Minus", "Plus", "Slash", "Star"} -> Arithmetic(typ, left, right)
      [] typ = "EqualEqual" -> [v |-> Bool(ObjectEq(left, right)), e |-> "Ok", m |-> ""]
      [] typ = "BangEqual" -> [v |-> Bool(~ObjectEq(left, right)), e |-> "Ok", m |-> ""]
      [] OTHER -> [v |-> Null, e |-> "Ok", m |-> ""]

\* LoxAssertEq::call
AssertEqCall(arguments, s) ==
    IF Len(arguments) # 2
    THEN Err(s, "Runtime", "2 arguments")
    ELSE IF ObjectEq(arguments[1], arguments[2])
         THEN Ok(s, Null)
         ELSE Err(s, "Runtime", "assert_eq")

\* LoxFunction::bind
\* a bind that defines `this` in the function's own closure frame
BindInPlace(function, instance, h) ==
    [h |-> Define(h, function.closure, "this", instance), v |-> function]

Bind(function, instance, h) ==
    LET frame == FrameDefine(EnvironmentWithParent(function.closure), "this", instance)
    IN  [h |-> Append(h, frame),
         v |-> LoxFunction(function.declaration, Len(h) + 1)]

\* Every nested evaluation and execution goes through Dispatch: the recursion of
\* evaluate and execute over the tree.
RECURSIVE Dispatch(_, _, _)
RECURSIVE ExecStatements(_, _, _)
RECURSIVE ExecuteWhile(_, _, _)
RECURSIVE EvalArguments(_, _, _, _)

\* a call of Interpreter::evaluate
Evaluate(expr, s) == Dispatch("evaluate", expr, s)
\* a call of Interpreter::execute
Execute(stmt, s) == Dispatch("execute", stmt, s)

\* Interpreter::evaluate_literal; a failure keeps the object found in v
EvaluateLiteral(expr, s) ==
    LET r == Evaluate(expr, s)
    IN  IF r.e # "Ok" THEN r
        ELSE IF IsLiteral(r.v) THEN r
             ELSE [s |-> r.s, v |-> r.v, e |-> "Internal", m |-> "Expected a literal"]

\* execute_block with `?` on the statements' result: the frame pointer is put
\* back on the normal exit only
ExecuteBlockNoRestore(statements, frame, s) ==
    LET inner == Len(s.envs) + 1
        original_env == s.environment
        s1 == [s EXCEPT !.envs = Append(@, frame), !.environment = inner]
        r == ExecStatements(statements, 1, s1)
    IN  IF r.e = "Panic" THEN r
        ELSE LET s2 == IF r.e = "Ok" THEN [r.s EXCEPT !.environment = original_env]
                       ELSE r.s
             IN  [r EXCEPT !.s = Log(s2, [ev |-> "block", entry |-> original_env,
                                          inner |-> inner, exit |-> s2.environment,
                                          e |-> r.e])]

\* Interpreter::execute_block
ExecuteBlock(statements, frame, s) ==
    LET inner == Len(s.envs) + 1
        original_env == s.environment
        s1 == [s EXCEPT !.envs = Append(@, frame), !.environment = inner]
        r == ExecStatements(statements, 1, s1)
    IN  IF r.e = "Panic" THEN r
        ELSE LET s2 == [r.s EXCEPT !.environment = original_env]
             IN  [r EXCEPT !.s = Log(s2, [ev |-> "block", entry |-> original_env,
                                          inner |-> inner, exit |-> s2.environment,
                                          e |-> r.e])]

\* LoxFunction::call with the frame hung under the caller's current frame
FunctionCallDynamic(function, arguments, s) ==
    LET environment ==
            [values |-> [n \in {function.declaration.params[i].lexeme :
                                    i \in 1..Len(arguments)} |->
                            LET last == CHOOSE i \in 1..Len(arguments) :
                                    /\ function.declaration.params[i].lexeme = n
                                    /\ \A j \in 1..Len(arguments) :
                                          function.declaration.params[j].lexeme = n
                                              => j <= i
                            IN  arguments[last]],
             parent |-> s.environment]
        r == ExecuteBlock(function.declaration.body, environment, s)
        out == CASE r.e = "Ok" -> Ok(r.s, Null)
                 [] r.e = "Return" -> Ok(r.s, r.v)
                 [] OTHER -> r
    IN  IF r.e = "Panic" THEN r
        ELSE [out EXCEPT !.s = Log(@, [ev |-> "call", entry |-> s.environment,
                                       exit |-> r.s.environment, e |-> r.e,
                                       result |-> out.e, v |-> out.v,
                                       from |-> Len(s.trace), frames |-> Len(s.envs),
                                       frame |-> environment,
                                       closure |-> function.closure,
                                       params |-> function.declaration.params,
                                       arguments |-> arguments])]

\* LoxFunction::call
FunctionCall(function, arguments, s) ==
    LET environment ==
            [values |-> [n \in {function.declaration.params[i].lexeme :
                                    i \in 1..Len(arguments)} |->
                            LET last == CHOOSE i \in 1..Len(arguments) :
                                    /\ function.declaration.params[i].lexeme = n
                                    /\ \A j \in 1..Len(arguments) :
                                          function.declaration.params[j].lexeme = n
                                              => j <= i
                            IN  arguments[last]],
             parent |-> function.closure]
        r == ExecuteBlock(function.declaration.body, environment, s)
        out == CASE r.e = "Ok" -> Ok(r.s, Null)
                 [] r.e = "Return" -> Ok(r.s, r.v)
                 [] OTHER -> r
    IN  IF r.e = "Panic" THEN r
        ELSE [out EXCEPT !.s = Log(@, [ev |-> "call", entry |-> s.environment,
                                       exit |-> r.s.environment, e |-> r.e,
                                       result |-> out.e, v |-> out.v,
                                       from |-> Len(s.trace), frames |-> Len(s.envs),
                                       frame |-> environment,
                                       closure |-> function.closure,
                                       params |-> function.declaration.params,
                                       arguments |-> arguments])]

\* LoxCallable::call for Object, by implementation
Call(callee, arguments, s) ==
    CASE callee.c = "clock" -> Ok(s, Num(0))
      [] callee.c = "assert_eq" -> AssertEqCall(arguments, s)
      [] callee.c = "fun" -> FunctionCall(callee, arguments, s)
      [] callee.c = "class" -> Ok(s, LoxInstance(callee))

\* the argument loop of Interpreter::eval_call
EvalArguments(arguments, i, s, acc) ==
    IF i > Len(arguments) THEN Ok(s, acc)
    ELSE LET r == Evaluate(arguments[i], s)
         IN  IF r.e # "Ok" THEN r
             ELSE EvalArguments(arguments, i + 1, r.s, Append(acc, r.v))

\* eval_call with the arity compared before the arguments are evaluated
EvalCallArityFirst(expr, s) ==
    LET callee == Evaluate(expr.callee, s)
    IN  IF callee.e # "Ok" THEN callee
        ELSE IF ~IsCallable(callee.v)
             THEN Err(callee.s, "Panic", "is not a LoxCallable")
             ELSE IF Len(expr.arguments) # Arity(callee.v)
                  THEN Err(Log(callee.s, [ev |-> "apply", callee |-> callee.v,
                                          n |-> Len(expr.arguments), ran |-> FALSE,
                                          e |-> "Runtime"]),
                           "Runtime", "arguments")
                  ELSE LET args == EvalArguments(expr.arguments, 1, callee.s, <<>>)
                       IN  IF args.e # "Ok" THEN args
                           ELSE Call(callee.v, args.v,
                                     Log(args.s, [ev |-> "apply", callee |-> callee.v,
                                                  n |-> Len(args.v), ran |-> TRUE,
                                                  e |-> "Ok"]))

\* Interpreter::eval_call
EvalCall(expr, s) ==
    LET callee == Evaluate(expr.callee, s)
    IN  IF callee.e # "Ok" THEN callee
        ELSE LET args == EvalArguments(expr.arguments, 1, callee.s, <<>>)
             IN  IF args.e # "Ok" THEN args
                 ELSE IF ~IsCallable(callee.v)
                      THEN Err(args.s, "Panic", "is not a LoxCallable")
                      ELSE IF Len(args.v) % 256 # Arity(callee.v)
                           THEN Err(Log(args.s, [ev |-> "apply", callee |-> callee.v,
                                                 n |-> Len(args.v), ran |-> FALSE,
                                                 e |-> "Runtime"]),
                                    "Runtime", "arguments")
                           ELSE Call(callee.v, args.v,
                                     Log(args.s, [ev |-> "apply", callee |-> callee.v,
                                                  n |-> Len(args.v), ran |-> TRUE,
                                                  e |-> "Ok"]))

\* Interpreter::eval_binary
EvalBinary(expr, s) ==
    LET left == Evaluate(expr.left, s)
    IN  IF left.e # "Ok" THEN left
        ELSE LET right == Evaluate(expr.right, left.s)
             IN  IF right.e # "Ok" THEN right
                 ELSE LET r == BinaryOp(expr.operator.typ, left.v, right.v)
                          s1 == Log(right.s, [ev |-> "binary", op |-> expr.operator.typ,
                                              left |-> left.v, right |-> right.v,
                                              e |-> r.e, v |-> r.v])
                      IN  [s |-> s1, v |-> r.v, e |-> r.e, m |-> r.m]

\* Interpreter::eval_logical
EvalLogical(expr, s) ==
    LET left == EvaluateLiteral(expr.left, s)
        s1 == Log(left.s, [ev |-> "truthy", site |-> "logical", v |-> left.v,
                           e |-> left.e,
                          m |-> left.m])
    IN  IF left.e # "Ok" THEN [left EXCEPT !.s = IF left.e = "Panic" THEN @ ELSE s1]
        ELSE IF \/ (expr.operator.typ = "Or" /\ IsTruthy(left.v))
                \/ (expr.operator.typ = "And" /\ ~IsTruthy(left.v))
             THEN Ok(Log(s1, [ev |-> "logical", op |-> expr.operator.typ,
                              left |-> left.v, right |-> FALSE, e |-> "Ok",
                              v |-> left.v]), left.v)
             ELSE LET right == Evaluate(expr.right, s1)
                  IN  IF right.e = "Panic" THEN right
                      ELSE [right EXCEPT !.s =
                               Log(@, [ev |-> "logical", op |-> expr.operator.typ,
                                       left |-> left.v, right |-> TRUE, e |-> right.e,
                                       v |-> right.v])]

\* Interpreter::eval_unary
EvalUnary(expr, s) ==
    LET right == EvaluateLiteral(expr.right, s)
        s1 == Log(right.s, [ev |-> "truthy", site |-> "unary", v |-> right.v,
                            e |-> right.e,
                          m |-> right.m])
    IN  CASE expr.operator.typ = "Minus" ->
                IF right.e # "Ok" THEN right
                ELSE IF right.v.k = "Number" THEN Ok(right.s, Num(0 - right.v.n))
                     ELSE Err(right.s, "Runtime", "f64")
          [] expr.operator.typ = "Bang" ->
                IF right.e # "Ok"
                THEN [right EXCEPT !.s = IF right.e = "Panic" THEN @ ELSE s1]
                ELSE Ok(s1, Bool(~IsTruthy(right.v)))
          [] OTHER ->
                IF right.e # "Ok" THEN right
                ELSE Err(right.s, "Runtime", "'!' or '-' unary operator")

\* Interpreter::eval_assign
EvalAssign(assign, s) ==
    LET value == Evaluate(assign.value, s)
    IN  IF value.e # "Ok" THEN value
        ELSE LET distance == LocalsGet(value.s.locals, assign.name)
                 h == value.s.envs
                 env == value.s.environment
                 done == IF distance >= 0
                         THEN EnvAssignAt(h, env, distance, assign.name.lexeme, value.v)
                         ELSE EnvAssign(h, env, assign.name, value.v)
                 s1 == Log([value.s EXCEPT !.envs = done.h],
                           [ev |-> "assign", name |-> assign.name,
                            distance |-> distance, env |-> env, e |-> done.e,
                            at |-> done.at,
                            had |-> done.at # 0
                                    /\ assign.name.lexeme \in DOMAIN h[done.at].values,
                            inGlobals |-> assign.name.lexeme
                                              \in DOMAIN h[Globals].values])
             IN  IF done.e = "Ok" THEN Ok(s1, value.v) ELSE Err(s1, done.e, done.m)

\* Interpreter::eval_get
EvalGet(expr, s) ==
    LET object == Evaluate(expr.object, s)
    IN  IF object.e # "Ok" THEN object
        ELSE IF IsInstance(object.v)
             THEN LET got == InstanceGet(object.v, expr.name)
                  IN  [s |-> Log(object.s,
                                 [ev |-> "get", name |-> expr.name.lexeme,
                                  isField |-> expr.name.lexeme
                                                 \in DOMAIN object.v.fields,
                                  isMethod |-> expr.name.lexeme
                                                  \in DOMAIN object.v.class.methods,
                                  before |-> object.v.fields, after |-> got.fields,
                                  e |-> got.e, m |-> got.m]),
                       v |-> got.v, e |-> got.e, m |-> got.m]
             ELSE Err(object.s, "Internal", "Only instances have properties.")

\* Interpreter::eval_set
EvalSet(expr, s) ==
    LET object == Evaluate(expr.object, s)
    IN  IF object.e # "Ok" THEN object
        ELSE IF ~IsInstance(object.v)
             THEN Err(object.s, "Runtime", "A LoxInstance")
             ELSE LET value == Evaluate(expr.value, object.s)
                  IN  IF value.e # "Ok" THEN value
                      ELSE IF expr.object.t \notin {"Variable", "This"}
                           THEN Err(Log(value.s, [ev |-> "set", shape |-> expr.object.t,
                                                  e |-> "Resolver", at |-> 0]),
                                    "Resolver", "Wrong kind of expr")
                           ELSE LET written == InstanceSet(object.v, expr.name, value.v)
                                    t == IF expr.object.t = "Variable"
                                         THEN expr.object.name
                                         ELSE expr.object.keyword
                                    done == EnvAssign(value.s.envs, value.s.environment,
                                                      t, written)
                                    s1 == Log([value.s EXCEPT !.envs = done.h],
                                              [ev |-> "set", shape |-> expr.object.t,
                                               e |-> done.e, at |-> done.at])
                                IN  IF done.e = "Ok" THEN Ok(s1, value.v)
                                    ELSE Err(s1, done.e, done.m)

\* Interpreter::evaluate
EvaluateExpr(expr, s) ==
    CASE expr.t = "Binary" -> EvalBinary(expr, s)
      [] expr.t = "Logical" -> EvalLogical(expr, s)
      [] expr.t = "Grouping" -> Evaluate(expr.expression, s)
      [] expr.t = "Literal" -> Ok(s, expr.value)
      [] expr.t = "Unary" -> EvalUnary(expr, s)
      [] expr.t = "Variable" -> LookupVariable(expr.name, s)
      [] expr.t = "Assign" -> EvalAssign(expr, s)
      [] expr.t = "Call" -> EvalCall(expr, s)
      [] expr.t = "Get" -> EvalGet(expr, s)
      [] expr.t = "Set" -> EvalSet(expr, s)
      [] expr.t = "This" -> LookupVariable(expr.keyword, s)

\* Interpreter::execute_print_stmt
ExecutePrintStmt(stmt, s) ==
    LET val == Evaluate(stmt.expression, s)
    IN  IF val.e # "Ok" THEN val
        ELSE Ok([val.s EXCEPT !.out = Append(@, Display(val.v))], Null)

\* Interpreter::execute_var_stmt
ExecuteVarStmt(stmt, s) ==
    LET value == IF stmt.hasInit THEN Evaluate(stmt.initializer, s) ELSE Ok(s, Null)
    IN  IF value.e # "Ok" THEN value
        ELSE Ok(DefineHere(value.s, stmt.name.lexeme, value.v), Null)

\* Interpreter::execute_if_stmt
ExecuteIfStmt(stmt, s) ==
    LET res == EvaluateLiteral(stmt.condition, s)
        s1 == Log(res.s, [ev |-> "truthy", site |-> "if", v |-> res.v, e |-> res.e,
                          m |-> res.m])
    IN  IF res.e # "Ok" THEN [res EXCEPT !.s = IF res.e = "Panic" THEN @ ELSE s1]
        ELSE IF IsTruthy(res.v) THEN Execute(stmt.then_branch, s1)
             ELSE IF stmt.hasElse THEN Execute(stmt.else_branch, s1)
                  ELSE Ok(s1, Null)

\* Interpreter::execute_while_stmt; n counts the iterations taken
ExecuteWhile(stmt, s, n) ==
    LET res == EvaluateLiteral(stmt.condition, s)
        s1 == Log(res.s, [ev |-> "truthy", site |-> "while", v |-> res.v, e |-> res.e,
                          m |-> res.m])
    IN  IF res.e # "Ok" THEN [res EXCEPT !.s = IF res.e = "Panic" THEN @ ELSE s1]
        ELSE IF ~IsTruthy(res.v) THEN Ok(s1, Null)
             ELSE IF n >= MaxLoop THEN Err(s1, "Unmodelled", "loop bound")
                  ELSE LET body == Execute(stmt.body, s1)
                       IN  IF body.e # "Ok" THEN body
                           ELSE ExecuteWhile(stmt, body.s, n + 1)

\* Interpreter::execute_fn_stmt
ExecuteFnStmt(stmt, s) ==
    Ok(DefineHere(s, stmt.name.lexeme, LoxFunction(stmt, s.environment)), Null)

\* Interpreter::execute_return_stmt
\* a return that ends like any other statement
ExecuteReturnStmtPlain(stmt, s) ==
    LET value == IF stmt.hasValue THEN Evaluate(stmt.value, s) ELSE Ok(s, Null)
    IN  IF value.e # "Ok" THEN value
        ELSE [s |-> value.s, v |-> value.v, e |-> "Ok", m |-> ""]

ExecuteReturnStmt(stmt, s) ==
    LET value == IF stmt.hasValue THEN Evaluate(stmt.value, s) ELSE Ok(s, Null)
    IN  IF value.e # "Ok" THEN value
        ELSE [s |-> value.s, v |-> value.v, e |-> "Return", m |-> ""]

\* Interpreter::execute_class_stmt
ExecuteClassStmt(stmt, s) ==
    LET s1 == DefineHere(s, stmt.name.lexeme, Null)
        h1 == s1.envs
        names == {stmt.methods[i].name.lexeme : i \in 1..Len(stmt.methods)}
        methods == [n \in names |->
                      LET last == CHOOSE i \in 1..Len(stmt.methods) :
                              /\ stmt.methods[i].name.lexeme = n
                              /\ \A j \in 1..Len(stmt.methods) :
                                    stmt.methods[j].name.lexeme = n => j <= i
                      IN  LoxFunction(stmt.methods[last], s.environment)]
        class == LoxClass(stmt.name.lexeme, methods)
        done == EnvAssign(h1, s.environment, stmt.name, class)
    IN  IF done.e = "Ok" THEN Ok([s1 EXCEPT !.envs = done.h], Null)
        ELSE Err([s1 EXCEPT !.envs = done.h], done.e, done.m)

\* Interpreter::execute
ExecuteStmt(stmt, s) ==
    CASE stmt.t = "Print" -> ExecutePrintStmt(stmt, s)
      [] stmt.t = "Block" -> ExecuteBlock(stmt.statements, EnvironmentNew, s)
      [] stmt.t = "Expression" ->
            LET r == Evaluate(stmt.expression, s)
            IN  IF r.e = "Ok" THEN Ok(r.s, Null) ELSE r
      [] stmt.t = "Var" -> ExecuteVarStmt(stmt, s)
      [] stmt.t = "If" -> ExecuteIfStmt(stmt, s)
      [] stmt.t = "While" -> ExecuteWhile(stmt, s, 0)
      [] stmt.t = "Function" -> ExecuteFnStmt(stmt, s)
      [] stmt.t = "Return" -> ExecuteReturnStmt(stmt, s)
      [] stmt.t = "Class" -> ExecuteClassStmt(stmt, s)

Dispatch(what, node, s) ==
    IF what = "evaluate" THEN EvaluateExpr(node, s) ELSE ExecuteStmt(node, s)

\* the statement loop of execute_block's closure: stops at the first error
ExecStatements(statements, i, s) ==
    IF i > Len(statements) THEN Ok(s, Null)
    ELSE LET r == Execute(statements[i], s)
         IN  IF r.e # "Ok" THEN r
             ELSE ExecStatements(statements, i + 1, r.s)

(***************************************************************************)
(* The resolver: interpreter/resolver.rs.  rs is [scopes, curr_fn, locals];*)
(* a result is [rs, e] with e "Ok", "Err" (a LoxError) or "Panic".         *)
(***************************************************************************)
\* Interpreter::resolve: a key already present aborts the process
InterpreterResolve(locals, token, depth) ==
    IF \E key \in DOMAIN locals : TokenEq(key, token)
    THEN [locals |-> locals, e |-> "Panic"]
    ELSE [locals |-> (token :> depth) @@ locals, e |-> "Ok"]

\* the index of the innermost scope that holds the lexeme, 0 when none does
InnermostScope(scopes, lexeme) ==
    IF \E i \in 1..Len(scopes) : lexeme \in DOMAIN scopes[i]
    THEN CHOOSE i \in 1..Len(scopes) :
            /\ lexeme \in DOMAIN scopes[i]
            /\ \A j \in 1..Len(scopes) : lexeme \in DOMAIN scopes[j] => j <= i
    ELSE 0

\* Resolver::resolve_local
ResolveLocal(token, rs) ==
    LET i == InnermostScope(rs.scopes, token.lexeme)
    IN  IF i = 0 THEN [rs |-> rs, e |-> "Ok"]
        ELSE LET r == InterpreterResolve(rs.locals, token, Len(rs.scopes) - i)
             IN  [rs |-> [rs EXCEPT !.locals = r.locals], e |-> r.e]

\* Resolver::begin_scope
BeginScope(rs) == [rs EXCEPT !.scopes = Append(@, EmptyMap)]

\* Resolver::end_scope
EndScope(rs) ==
    IF Len(rs.scopes) = 0 THEN [rs |-> rs, e |-> "Err"]
    ELSE [rs |-> [rs EXCEPT !.scopes = SubSeq(@, 1, Len(@) - 1)], e |-> "Ok"]

\* declare without the look at the innermost scope: a second declaration of a
\* name is taken like the first
DeclareAgain(name, rs) ==
    IF Len(rs.scopes) = 0 THEN [rs |-> rs, e |-> "Ok"]
    ELSE [rs |-> [rs EXCEPT !.scopes[Len(rs.scopes)] = MapInsert(@, name, FALSE)],
          e |-> "Ok"]

\* Resolver::declare
Declare(name, rs) ==
    IF Len(rs.scopes) = 0 THEN [rs |-> rs, e |-> "Ok"]
    ELSE IF name \in DOMAIN rs.scopes[Len(rs.scopes)]
         THEN [rs |-> rs, e |-> "Err"]
         ELSE [rs |-> [rs EXCEPT !.scopes[Len(rs.scopes)] = MapInsert(@, name, FALSE)],
               e |-> "Ok"]

\* Resolver::define
ResolverDefine(name, rs) ==
    IF Len(rs.scopes) = 0 THEN [rs |-> rs, e |-> "Ok"]
    ELSE [rs |-> [rs EXCEPT !.scopes[Len(rs.scopes)] = MapInsert(@, name, TRUE)],
          e |-> "Ok"]

\* declare then define, as for a function name, a class name and a parameter
DeclareDefine(name, rs) ==
    LET d == Declare(name, rs)
    IN  IF d.e # "Ok" THEN d ELSE ResolverDefine(name, d.rs)

\* Every nested resolution goes through ResolveDispatch: the recursion of
\* resolve_expr and resolve_stmt over the tree.
RECURSIVE ResolveDispatch(_, _, _)
RECURSIVE ResolveExprs(_, _, _)
RECURSIVE ResolveAllFrom(_, _, _, _)
RECURSIVE DeclareParams(_, _, _)

\* a call of Resolver::resolve_expr
ResolveExpr(expr, rs) == ResolveDispatch("expr", expr, rs)
\* a call of Resolver::resolve_stmt
ResolveStmt(statement, rs) == ResolveDispatch("stmt", statement, rs)

\* resolve the expressions of a list in order, stopping at the first failure
ResolveExprs(exprs, i, rs) ==
    IF i > Len(exprs) THEN [rs |-> rs, e |-> "Ok"]
    ELSE LET r == ResolveExpr(exprs[i], rs)
         IN  IF r.e # "Ok" THEN r ELSE ResolveExprs(exprs, i + 1, r.rs)

\* the arm a This expression needs: resolve_expr has none; resolved as a variable
ResolveThis(expr, rs) == ResolveLocal(expr.keyword, rs)

\* Resolver::resolve_expr
ResolveExprArms(expr, rs) ==
    CASE expr.t = "Variable" ->
            IF /\ Len(rs.scopes) > 0
               /\ expr.name.lexeme \in DOMAIN rs.scopes[Len(rs.scopes)]
               /\ rs.scopes[Len(rs.scopes)][expr.name.lexeme] = FALSE
            THEN [rs |-> rs, e |-> "Err"]
            ELSE ResolveLocal(expr.name, rs)
      [] expr.t = "Assign" ->
            LET r == ResolveExpr(expr.value, rs)
            IN  IF r.e # "Ok" THEN r ELSE ResolveLocal(expr.name, r.rs)
      [] expr.t \in {"Binary", "Logical"} ->
            ResolveExprs(<<expr.left, expr.right>>, 1, rs)
      [] expr.t = "Call" -> ResolveExprs(<<expr.callee>> \o expr.arguments, 1, rs)
      [] expr.t = "Get" -> ResolveExpr(expr.object, rs)
      [] expr.t = "Grouping" -> ResolveExpr(expr.expression, rs)
      [] expr.t = "Literal" -> [rs |-> rs, e |-> "Ok"]
      [] expr.t = "Unary" -> ResolveExpr(expr.right, rs)
      [] expr.t = "Set" -> ResolveExprs(<<expr.value, expr.object>>, 1, rs)
      [] expr.t = "This" -> ResolveThis(expr, rs)

\* the parameter loop of Resolver::resolve_func
DeclareParams(params, i, rs) ==
    IF i > Len(params) THEN [rs |-> rs, e |-> "Ok"]
    ELSE LET r == DeclareDefine(params[i].lexeme, rs)
         IN  IF r.e # "Ok" THEN r ELSE DeclareParams(params, i + 1, r.rs)

\* Resolver::resolve_all from statement i on: every statement is resolved, the
\* errors are counted, and the result is an error when there was one
ResolveAllFrom(statements, i, rs, had_error) ==
    IF i > Len(statements)
    THEN [rs |-> rs, e |-> IF had_error THEN "Err" ELSE "Ok"]
    ELSE LET r == ResolveStmt(statements[i], rs)
         IN  IF r.e = "Panic" THEN r
             ELSE ResolveAllFrom(statements, i + 1, r.rs, had_error \/ r.e # "Ok")

\* Resolver::resolve_func
ResolveFunc(func, typ, rs) ==
    LET enclosing_fn == rs.curr_fn
        rs1 == BeginScope([rs EXCEPT !.curr_fn = typ])
        params == DeclareParams(func.params, 1, rs1)
    IN  IF params.e # "Ok" THEN params
        ELSE LET body == ResolveAllFrom(func.body, 1, params.rs, FALSE)
             IN  IF body.e # "Ok" THEN body
                 ELSE LET ended == EndScope(body.rs)
                      IN  IF ended.e # "Ok" THEN ended
                          ELSE [rs |-> [ended.rs EXCEPT !.curr_fn = enclosing_fn],
                                e |-> "Ok"]

RECURSIVE ResolveMethods(_, _, _)
\* the method loop of resolve_stmt's Stmt::Class arm
ResolveMethods(methods, i, rs) ==
    IF i > Len(methods) THEN [rs |-> rs, e |-> "Ok"]
    ELSE LET r == ResolveFunc(methods[i], "Method", rs)
         IN  IF r.e # "Ok" THEN r ELSE ResolveMethods(methods, i + 1, r.rs)

\* Resolver::resolve_stmt
ResolveStmtArms(statement, rs) ==
    CASE statement.t = "Var" ->
            LET d == Declare(statement.name.lexeme, rs)
            IN  IF d.e # "Ok" THEN d
                ELSE LET init == IF statement.hasInit
                                 THEN ResolveExpr(statement.initializer, d.rs)
                                 ELSE [rs |-> d.rs, e |-> "Ok"]
                     IN  IF init.e # "Ok" THEN init
                         ELSE ResolverDefine(statement.name.lexeme, init.rs)
      [] statement.t = "Function" ->
            LET d == DeclareDefine(statement.name.lexeme, rs)
            IN  IF d.e # "Ok" THEN d ELSE ResolveFunc(statement, "Function", d.rs)
      [] statement.t = "Expression" -> ResolveExpr(statement.expression, rs)
      [] statement.t = "If" ->
            LET c == ResolveExpr(statement.condition, rs)
            IN  IF c.e # "Ok" THEN c
                ELSE LET th == ResolveStmt(statement.then_branch, c.rs)
                     IN  IF th.e # "Ok" \/ ~statement.hasElse THEN th
                         ELSE ResolveStmt(statement.else_branch, th.rs)
      [] statement.t = "Print" -> ResolveExpr(statement.expression, rs)
      [] statement.t = "Return" ->
            IF rs.curr_fn = "None" THEN [rs |-> rs, e |-> "Err"]
            ELSE IF statement.hasValue THEN ResolveExpr(statement.value, rs)
                 ELSE [rs |-> rs, e |-> "Ok"]
      [] statement.t = "While" ->
            LET c == ResolveExpr(statement.condition, rs)
            IN  IF c.e # "Ok" THEN c ELSE ResolveStmt(statement.body, c.rs)
      [] statement.t = "Block" ->
            LET all == ResolveAllFrom(statement.statements, 1, BeginScope(rs), FALSE)
            IN  IF all.e # "Ok" THEN all ELSE EndScope(all.rs)
      [] statement.t = "Class" ->
            LET d == DeclareDefine(statement.name.lexeme, rs)
            IN  IF d.e # "Ok" THEN d ELSE ResolveMethods(statement.methods, 1, d.rs)

ResolveDispatch(what, node, rs) ==
    IF what = "expr" THEN ResolveExprArms(node, rs) ELSE ResolveStmtArms(node, rs)

(***************************************************************************)
(* Programs: the statement lists Lox::run hands to the resolver and the    *)
(* evaluator.  A program is named by [fam, one, d, x, y]; with `one` every *)
(* token is on line 1 (the source written on a single line), otherwise     *)
(* each statement is on a line of its own.                                 *)
(***************************************************************************)
RECURSIVE Nest(_, _)
\* the statements wrapped in d nested blocks
Nest(d, statements) ==
    IF d = 0 THEN statements ELSE <<BlockStmt(Nest(d - 1, statements))>>

CallStmt(lexeme, line) == ExpressionStmt(CallExpr(VariableExpr(lexeme, line), line, <<>>))

\* var a = "global"; { fun show() { print a; } show(); var a = "local"; show(); }
ShowProgram(one) ==
    LET L(i) == IF one THEN 1 ELSE i
    IN  << VarStmt("a", L(1), LiteralExpr(Str("global"))),
           BlockStmt(<< FunctionStmt("show", L(2), <<>>,
                                     <<PrintStmt(VariableExpr("a", L(2)))>>),
                        CallStmt("show", L(3)),
                        VarStmt("a", L(4), LiteralExpr(Str("local"))),
                        CallStmt("show", L(5)) >>) >>

\* programs whose assignment target the resolver leaves unresolved
AssignProgram(x, one) ==
    LET L(i) == IF one THEN 1 ELSE i
    IN  CASE x = 1 ->   \* var a = 1; a = 2; print a;
               << VarStmt("a", L(1), LiteralExpr(Num(1))),
                  ExpressionStmt(AssignExpr("a", L(2), LiteralExpr(Num(2)))),
                  PrintStmt(VariableExpr("a", L(3))) >>
          [] x = 2 ->   \* { fun f() { a = 2; } var a = 1; f(); print a; }
               << BlockStmt(<< FunctionStmt("f", L(1), <<>>,
                                  <<ExpressionStmt(AssignExpr("a", L(1),
                                                              LiteralExpr(Num(2))))>>),
                               VarStmt("a", L(2), LiteralExpr(Num(1))),
                               CallStmt("f", L(3)),
                               PrintStmt(VariableExpr("a", L(4))) >>) >>
          [] x = 3 ->   \* var a = 0; { fun f() { a = 2; } var a = 1; f(); } print a;
               << VarStmt("a", L(1), LiteralExpr(Num(0))),
                  BlockStmt(<< FunctionStmt("f", L(2), <<>>,
                                  <<ExpressionStmt(AssignExpr("a", L(2),
                                                              LiteralExpr(Num(2))))>>),
                               VarStmt("a", L(3), LiteralExpr(Num(1))),
                               CallStmt("f", L(4)) >>),
                  PrintStmt(VariableExpr("a", L(5))) >>
          [] x = 4 ->   \* var g = 1; { g = 2; } print g;
               << VarStmt("g", L(1), LiteralExpr(Num(1))),
                  BlockStmt(<<ExpressionStmt(AssignExpr("g", L(2),
                                                        LiteralExpr(Num(2))))>>),
                  PrintStmt(VariableExpr("g", L(3))) >>
          [] x = 5 ->   \* u = 1;
               << ExpressionStmt(AssignExpr("u", L(1), LiteralExpr(Num(1)))) >>
          [] x = 6 ->   \* var a = 1; fun f() { a = 2; } f(); print a;
               << VarStmt("a", L(1), LiteralExpr(Num(1))),
                  FunctionStmt("f", L(2), <<>>,
                      <<ExpressionStmt(AssignExpr("a", L(2), LiteralExpr(Num(2))))>>),
                  CallStmt("f", L(3)),
                  PrintStmt(VariableExpr("a", L(4))) >>
AssignCases == 1..6

\* what a block or a function body of the nest families holds
Payload(x, line) ==
    CASE x = 1 ->   \* print 1;
           << PrintStmt(LiteralExpr(Num(1))) >>
      [] x = 2 ->   \* print -"a";
           << PrintStmt(UnaryExpr("Minus", line, LiteralExpr(Str("a")))) >>
      [] x = 3 ->   \* var a = 1; { print a; }
           << VarStmt("a", line, LiteralExpr(Num(1))),
              BlockStmt(<<PrintStmt(VariableExpr("a", line + 1))>>) >>
      [] x = 4 ->   \* if (clock) print 1;
           << IfStmt(VariableExpr("clock", line), PrintStmt(LiteralExpr(Num(1)))) >>
      [] x = 5 ->   \* var a = 1; print a;
           << VarStmt("a", line, LiteralExpr(Num(1))),
              PrintStmt(VariableExpr("a", line + 1)) >>
      [] x = 6 ->   \* return 7;
           << ReturnStmt(line, LiteralExpr(Num(7))) >>
      [] x = 7 ->   \* return;
           << ReturnStmtNoValue(line) >>
TopPayloads == 1..5
FunctionPayloads == 1..7

\* the payload in d nested blocks, then print "after";
NestProgram(d, x) ==
    Nest(d, Payload(x, 1)) \o << PrintStmt(LiteralExpr(Str("after"))) >>

\* fun f() { the payload in d nested blocks } print f(); print "after";
FunctionNestProgram(d, x) ==
    << FunctionStmt("f", 1, <<>>, Nest(d, Payload(x, 2))),
       PrintStmt(CallExpr(VariableExpr("f", 4), 4, <<>>)),
       PrintStmt(LiteralExpr(Str("after"))) >>

\* fun f() { { { return 7; } } } fun g() { { print -"a"; } } print f(); g();
MixedProgram ==
    << FunctionStmt("f", 1, <<>>, Nest(2, <<ReturnStmt(1, LiteralExpr(Num(7)))>>)),
       FunctionStmt("g", 2, <<>>,
           Nest(1, <<PrintStmt(UnaryExpr("Minus", 2, LiteralExpr(Str("a"))))>>)),
       PrintStmt(CallExpr(VariableExpr("f", 3), 3, <<>>)),
       CallStmt("g", 4) >>

\* { var a = 1; a read (x = 1) or assigned (x = 2) under d more blocks; print a; }
DepthProgram(d, x, one) ==
    LET L(i) == IF one THEN 1 ELSE i
        use == IF x = 1
               THEN PrintStmt(VariableExpr("a", L(2)))
               ELSE ExpressionStmt(AssignExpr("a", L(2), LiteralExpr(Num(2))))
    IN  << BlockStmt(<< VarStmt("a", L(1), LiteralExpr(Num(1))) >>
                     \o Nest(d, <<use>>)
                     \o << PrintStmt(VariableExpr("a", L(3))) >>) >>

\* fun makeCounter() { var i = 0; fun count() { i = i + 1; print i; } return count; }
\* var c = makeCounter(); c(); c(); c();
\* with y = 1 the target and the operand of `i = i + 1` are on two lines
CounterProgram(one, y) ==
    LET L(i) == IF one THEN 1 ELSE i
    IN  << FunctionStmt("makeCounter", L(1), <<>>,
              << VarStmt("i", L(2), LiteralExpr(Num(0))),
                 FunctionStmt("count", L(3), <<>>,
                    << ExpressionStmt(AssignExpr("i", L(4),
                          BinaryExpr(VariableExpr("i", L(4) + y), "Plus", L(4),
                                     LiteralExpr(Num(1))))),
                       PrintStmt(VariableExpr("i", L(6))) >>),
                 ReturnStmt(L(7), VariableExpr("count", L(7))) >>),
           VarStmt("c", L(8), CallExpr(VariableExpr("makeCounter", L(8)), L(8), <<>>)),
           CallStmt("c", L(9)), CallStmt("c", L(10)), CallStmt("c", L(11)) >>

\* for (var i = 0; i < 3; i = i + 1) print i;  as Parser::for_statement builds it
ForProgram(one, y) ==
    LET L(i) == IF one THEN 1 ELSE i
    IN  << BlockStmt(<<
              VarStmt("i", L(1), LiteralExpr(Num(0))),
              WhileStmt(BinaryExpr(VariableExpr("i", L(2)), "Less", L(2),
                                   LiteralExpr(Num(3))),
                 BlockStmt(<<
                    PrintStmt(VariableExpr("i", L(5))),
                    ExpressionStmt(AssignExpr("i", L(3),
                        BinaryExpr(VariableExpr("i", L(3) + y), "Plus", L(3),
                                   LiteralExpr(Num(1))))) >>)) >>) >>

\* class P { } fun f() { } var p = P();   the names the operands below read
Prelude ==
    << ClassStmt("P", 1, <<>>),
       FunctionStmt("f", 2, <<>>, <<>>),
       VarStmt("p", 3, CallExpr(VariableExpr("P", 3), 3, <<>>)) >>

\* operand expressions of every variant of Object
Operands(line) ==
    << LiteralExpr(Num(1)), LiteralExpr(Num(2)), LiteralExpr(Str("a")),
       LiteralExpr(Bool(TRUE)), LiteralExpr(Bool(FALSE)), LiteralExpr(Null),
       VariableExpr("clock", line), VariableExpr("p", line),
       VariableExpr("P", line), VariableExpr("f", line) >>
OperandCases == 1..Len(Operands(1))

BinaryOps == << "Less", "LessEqual", "Greater", "GreaterEqual", "EqualEqual", "BangEqual" >>

\* the prelude, then print X op Y; for every operator
BinaryProgram(x, y) ==
    Prelude \o [i \in 1..Len(BinaryOps) |->
                  PrintStmt(BinaryExpr(Operands(3 + i)[x], BinaryOps[i], 3 + i,
                                       Operands(10 + i)[y]))]

\* the prelude, then one use of X where its truthiness decides
\* fun id(x) { print x; return x; } fun g(a, b) { print "body"; }
\* then  id(g)(id(1), id(2));  (y = 1)   id(g)(id(1));  (y = 2)
\* id(g)(id(1), id(2), id(3));  (y = 3)   clock(id(1));  (y = 4)
CallProgram(y) ==
    LET arg(n) == CallExpr(VariableExpr("id", 5), 5, <<LiteralExpr(Num(n))>>)
        callee == IF y = 4 THEN VariableExpr("clock", 5)
                  ELSE CallExpr(VariableExpr("id", 5), 5, <<VariableExpr("g", 5)>>)
        n == CASE y = 1 -> 2 [] y = 2 -> 1 [] y = 3 -> 3 [] y = 4 -> 1
    IN  << FunctionStmt("id", 1, <<"x">>,
              << PrintStmt(VariableExpr("x", 2)),
                 ReturnStmt(3, VariableExpr("x", 3)) >>),
           FunctionStmt("g", 4, <<"a", "b">>, <<PrintStmt(LiteralExpr(Str("body")))>>),
           ExpressionStmt(CallExpr(callee, 5, [i \in 1..n |-> arg(i)])) >>

\* y = 1:  var x = "global"; fun f() { print x; }
\*         fun g() { var x = "local"; f(); } g();
\* y = 2:  fun h(a) { var b = a; fun k() { } class K { } print b; } h(1); print b;
\* y = 3:  fun f() { print x; } fun g(x) { f(); } g("arg");
ScopeProgram(y) ==
    CASE y = 1 ->
           << VarStmt("x", 1, LiteralExpr(Str("global"))),
              FunctionStmt("f", 2, <<>>, <<PrintStmt(VariableExpr("x", 2))>>),
              FunctionStmt("g", 3, <<>>,
                 << VarStmt("x", 3, LiteralExpr(Str("local"))), CallStmt("f", 4) >>),
              CallStmt("g", 5) >>
      [] y = 2 ->
           << FunctionStmt("h", 1, <<"a">>,
                 << VarStmt("b", 2, VariableExpr("a", 2)),
                    FunctionStmt("k", 3, <<>>, <<>>),
                    ClassStmt("K", 4, <<>>),
                    PrintStmt(VariableExpr("b", 5)) >>),
              ExpressionStmt(CallExpr(VariableExpr("h", 6), 6, <<LiteralExpr(Num(1))>>)),
              PrintStmt(VariableExpr("b", 7)) >>
      [] y = 3 ->
           << FunctionStmt("f", 1, <<>>, <<PrintStmt(VariableExpr("x", 1))>>),
              FunctionStmt("g", 2, <<"x">>, <<CallStmt("f", 2)>>),
              ExpressionStmt(CallExpr(VariableExpr("g", 3), 3,
                                      <<LiteralExpr(Str("arg"))>>)) >>

\* X();  (y = 1)   print X.x;  (y = 2)   for every operand X
MisuseProgram(x, y) ==
    Prelude \o
    << IF y = 1 THEN ExpressionStmt(CallExpr(Operands(4)[x], 4, <<>>))
       ELSE PrintStmt(GetExpr(Operands(4)[x], "x", 4)) >>

\* var a = 0; fun r() { a = a + 1; print "R"; return 5; }
\* print X and r();  (y = 1)   print X or r();  (y = 2)   print a;
LogicProgram(x, y) ==
    Prelude \o
    << VarStmt("a", 4, LiteralExpr(Num(0))),
       FunctionStmt("r", 5, <<>>,
          << ExpressionStmt(AssignExpr("a", 5,
                BinaryExpr(VariableExpr("a", 5), "Plus", 5, LiteralExpr(Num(1))))),
             PrintStmt(LiteralExpr(Str("R"))),
             ReturnStmt(5, LiteralExpr(Num(5))) >>),
       PrintStmt(LogicalExpr(Operands(6)[x], IF y = 1 THEN "And" ELSE "Or", 6,
                             CallExpr(VariableExpr("r", 6), 6, <<>>))),
       PrintStmt(VariableExpr("a", 7)) >>

TruthyProgram(x, y) ==
    Prelude \o
    CASE y = 1 ->   \* print !X;
           << PrintStmt(UnaryExpr("Bang", 4, Operands(4)[x])) >>
      [] y = 2 ->   \* if (X) print "then"; else print "else";
           << IfElseStmt(Operands(4)[x], PrintStmt(LiteralExpr(Str("then"))),
                         PrintStmt(LiteralExpr(Str("else")))) >>
      [] y = 3 ->   \* var c = X; while (c) c = nil; print "end";
           << VarStmt("c", 4, Operands(4)[x]),
              WhileStmt(VariableExpr("c", 5),
                        ExpressionStmt(AssignExpr("c", 6, LiteralExpr(Null)))),
              PrintStmt(LiteralExpr(Str("end"))) >>
      [] y = 4 ->   \* print X and "right";
           << PrintStmt(LogicalExpr(Operands(4)[x], "And", 4,
                                    LiteralExpr(Str("right")))) >>
      [] y = 5 ->   \* print X or "right";
           << PrintStmt(LogicalExpr(Operands(4)[x], "Or", 4,
                                    LiteralExpr(Str("right")))) >>
TruthySites == 1..5

\* programs on classes and instances
ClassProgram(x, one) ==
    LET L(i) == IF one THEN 1 ELSE i
    IN  CASE x = 1 ->   \* class G { hi() { print this; } } G().hi();
               << ClassStmt("G", L(1),
                     <<FunctionStmt("hi", L(2), <<>>, <<PrintStmt(ThisExpr(L(2)))>>)>>),
                  ExpressionStmt(CallExpr(
                     GetExpr(CallExpr(VariableExpr("G", L(3)), L(3), <<>>), "hi", L(3)),
                     L(3), <<>>)) >>
          [] x = 2 ->   \* class G { hi() { print "hello"; } } G().hi();
               << ClassStmt("G", L(1),
                     <<FunctionStmt("hi", L(2), <<>>,
                                    <<PrintStmt(LiteralExpr(Str("hello")))>>)>>),
                  ExpressionStmt(CallExpr(
                     GetExpr(CallExpr(VariableExpr("G", L(3)), L(3), <<>>), "hi", L(3)),
                     L(3), <<>>)) >>
          [] x = 3 ->   \* class P { } var p = P(); var q = p; p.x = 1; print p.x; print q.x;
               << ClassStmt("P", L(1), <<>>),
                  VarStmt("p", L(2), CallExpr(VariableExpr("P", L(2)), L(2), <<>>)),
                  VarStmt("q", L(3), VariableExpr("p", L(3))),
                  ExpressionStmt(SetExpr(VariableExpr("p", L(4)), "x", L(4),
                                         LiteralExpr(Num(1)))),
                  PrintStmt(GetExpr(VariableExpr("p", L(5)), "x", L(5))),
                  PrintStmt(GetExpr(VariableExpr("q", L(6)), "x", L(6))) >>
          [] x = 4 ->   \* class C { put() { this.x = 1; } } var c = C(); c.put(); print c.x;
               << ClassStmt("C", L(1),
                     <<FunctionStmt("put", L(2), <<>>,
                          <<ExpressionStmt(SetExpr(ThisExpr(L(2)), "x", L(2),
                                                   LiteralExpr(Num(1))))>>)>>),
                  VarStmt("c", L(3), CallExpr(VariableExpr("C", L(3)), L(3), <<>>)),
                  ExpressionStmt(CallExpr(GetExpr(VariableExpr("c", L(4)), "put", L(4)),
                                          L(4), <<>>)),
                  PrintStmt(GetExpr(VariableExpr("c", L(5)), "x", L(5))) >>
          [] x = 5 ->   \* class P { } var p = P(); p.x = 4; p.y = 5; print p.x + p.y;
               << ClassStmt("P", L(1), <<>>),
                  VarStmt("p", L(2), CallExpr(VariableExpr("P", L(2)), L(2), <<>>)),
                  ExpressionStmt(SetExpr(VariableExpr("p", L(3)), "x", L(3),
                                         LiteralExpr(Num(4)))),
                  ExpressionStmt(SetExpr(VariableExpr("p", L(4)), "y", L(4),
                                         LiteralExpr(Num(5)))),
                  PrintStmt(BinaryExpr(GetExpr(VariableExpr("p", L(5)), "x", L(5)),
                                       "Plus", L(5),
                                       GetExpr(VariableExpr("p", L(6)), "y", L(6)))) >>
          [] x = 6 ->   \* class P { } var p = P(); var q = p; print p == p; print p == q;
                        \* print P() == P(); assert_eq(p, p);
               << ClassStmt("P", L(1), <<>>),
                  VarStmt("p", L(2), CallExpr(VariableExpr("P", L(2)), L(2), <<>>)),
                  VarStmt("q", L(3), VariableExpr("p", L(3))),
                  PrintStmt(BinaryExpr(VariableExpr("p", L(4)), "EqualEqual", L(4),
                                       VariableExpr("p", L(4)))),
                  PrintStmt(BinaryExpr(VariableExpr("p", L(5)), "EqualEqual", L(5),
                                       VariableExpr("q", L(5)))),
                  PrintStmt(BinaryExpr(CallExpr(VariableExpr("P", L(6)), L(6), <<>>),
                                       "EqualEqual", L(6),
                                       CallExpr(VariableExpr("P", L(6)), L(6), <<>>))),
                  ExpressionStmt(CallExpr(VariableExpr("assert_eq", L(7)), L(7),
                                          <<VariableExpr("p", L(7)),
                                            VariableExpr("p", L(7))>>)) >>
          [] x = 7 ->   \* class C { put() { } } var c = C(); c.x = 1; print c.x;
                        \* print c.put; print c.y; print "after";
               << ClassStmt("C", L(1), <<FunctionStmt("put", L(2), <<>>, <<>>)>>),
                  VarStmt("c", L(3), CallExpr(VariableExpr("C", L(3)), L(3), <<>>)),
                  ExpressionStmt(SetExpr(VariableExpr("c", L(4)), "x", L(4),
                                         LiteralExpr(Num(1)))),
                  PrintStmt(GetExpr(VariableExpr("c", L(5)), "x", L(5))),
                  PrintStmt(GetExpr(VariableExpr("c", L(6)), "put", L(6))),
                  PrintStmt(GetExpr(VariableExpr("c", L(7)), "y", L(7))),
                  PrintStmt(LiteralExpr(Str("after"))) >>
          [] x = 8 ->   \* class P { } var p = P(); p.x = 1; p.y = 2; p.x = 3;
                        \* print p.x; print p.y;
               << ClassStmt("P", L(1), <<>>),
                  VarStmt("p", L(2), CallExpr(VariableExpr("P", L(2)), L(2), <<>>)),
                  ExpressionStmt(SetExpr(VariableExpr("p", L(3)), "x", L(3),
                                         LiteralExpr(Num(1)))),
                  ExpressionStmt(SetExpr(VariableExpr("p", L(4)), "y", L(4),
                                         LiteralExpr(Num(2)))),
                  ExpressionStmt(SetExpr(VariableExpr("p", L(5)), "x", L(5),
                                         LiteralExpr(Num(3)))),
                  PrintStmt(GetExpr(VariableExpr("p", L(6)), "x", L(6))),
                  PrintStmt(GetExpr(VariableExpr("p", L(7)), "y", L(7))) >>
          [] x = 9 ->   \* class P { } var p = P(); p.b = P(); p.b.c = 1; print p.b.c;
               << ClassStmt("P", L(1), <<>>),
                  VarStmt("p", L(2), CallExpr(VariableExpr("P", L(2)), L(2), <<>>)),
                  ExpressionStmt(SetExpr(VariableExpr("p", L(3)), "b", L(3),
                                         CallExpr(VariableExpr("P", L(3)), L(3), <<>>))),
                  ExpressionStmt(SetExpr(GetExpr(VariableExpr("p", L(4)), "b", L(4)),
                                         "c", L(4), LiteralExpr(Num(1)))),
                  PrintStmt(GetExpr(GetExpr(VariableExpr("p", L(5)), "b", L(5)),
                                    "c", L(5))) >>
          [] x = 10 ->  \* class P { } fun f() { return P(); } print f().x = 1;
               << ClassStmt("P", L(1), <<>>),
                  FunctionStmt("f", L(2), <<>>,
                      <<ReturnStmt(L(2), CallExpr(VariableExpr("P", L(2)), L(2), <<>>))>>),
                  PrintStmt(SetExpr(CallExpr(VariableExpr("f", L(3)), L(3), <<>>),
                                    "x", L(3), LiteralExpr(Num(1)))) >>
          [] x = 11 ->  \* class Point { } var p = Point(); p.x = 4; p.y = 5;
                        \* print p.x + p.y; var q = Point(); q.x = 1; print p.x;
                        \* print q.x; print q.y;
               << ClassStmt("Point", L(1), <<>>),
                  VarStmt("p", L(2), CallExpr(VariableExpr("Point", L(2)), L(2), <<>>)),
                  ExpressionStmt(SetExpr(VariableExpr("p", L(3)), "x", L(3),
                                         LiteralExpr(Num(4)))),
                  ExpressionStmt(SetExpr(VariableExpr("p", L(4)), "y", L(4),
                                         LiteralExpr(Num(5)))),
                  PrintStmt(BinaryExpr(GetExpr(VariableExpr("p", L(5)), "x", L(5)),
                                       "Plus", L(5),
                                       GetExpr(VariableExpr("p", L(5)), "y", L(5)))),
                  VarStmt("q", L(6), CallExpr(VariableExpr("Point", L(6)), L(6), <<>>)),
                  ExpressionStmt(SetExpr(VariableExpr("q", L(7)), "x", L(7),
                                         LiteralExpr(Num(1)))),
                  PrintStmt(GetExpr(VariableExpr("p", L(8)), "x", L(8))),
                  PrintStmt(GetExpr(VariableExpr("q", L(9)), "x", L(9))),
                  PrintStmt(GetExpr(VariableExpr("q", L(10)), "y", L(10))) >>
ClassCases == 1..11

Id(fam, one, d, x, y) == [fam |-> fam, one |-> one, d |-> d, x |-> x, y |-> y]

\* print "start"; then, under d nested blocks, two declarations of `a`:
\* x = 3 * (k1 - 1) + k2 for the kinds 1 `var a = n;`, 2 `fun a() { }`,
\* 3 `class a { }` of the first and the second; x = 10: fun f(a, a) { };
\* x = 11: fun f() { var a = 1; var a = 2; }
DupProgram(x, d) ==
    LET decl(k, n) == CASE k = 1 -> VarStmt("a", n, LiteralExpr(Num(n)))
                        [] k = 2 -> FunctionStmt("a", n, <<>>, <<>>)
                        [] k = 3 -> ClassStmt("a", n, <<>>)
    IN  << PrintStmt(LiteralExpr(Str("start"))) >>
        \o Nest(d, CASE x <= 9 -> << decl((x - 1) \div 3 + 1, 1),
                                     decl(((x - 1) % 3) + 1, 2) >>
                      [] x = 10 -> << FunctionStmt("f", 1, <<"a", "a">>, <<>>) >>
                      [] x = 11 -> << FunctionStmt("f", 1, <<>>,
                                        << decl(1, 1), decl(1, 2) >>) >>)

\* y = 1: `return;` under d nested blocks      y = 2: if (true) return; else return;
\* y = 3: while (false) { return; }
\* y = 4: fun f() { fun g() { return 1; } return 2; }
\* y = 5: fun f() { return 1; } return 2;
\* y = 6: class C { m() { fun g() { return 1; } return 2; } }
\* y = 7: fun f() { var a = a; } return;
\* y = 8: fun f() { if (true) { while (false) return 1; } }
ReturnProgram(y, d) ==
    CASE y = 1 -> Nest(d, <<ReturnStmtNoValue(1)>>)
      [] y = 2 -> << IfElseStmt(LiteralExpr(Bool(TRUE)), ReturnStmtNoValue(1),
                                ReturnStmtNoValue(2)) >>
      [] y = 3 -> << WhileStmt(LiteralExpr(Bool(FALSE)),
                               BlockStmt(<<ReturnStmtNoValue(1)>>)) >>
      [] y = 4 -> << FunctionStmt("f", 1, <<>>,
                        << FunctionStmt("g", 2, <<>>,
                                        <<ReturnStmt(2, LiteralExpr(Num(1)))>>),
                           ReturnStmt(3, LiteralExpr(Num(2))) >>) >>
      [] y = 5 -> << FunctionStmt("f", 1, <<>>, <<ReturnStmt(1, LiteralExpr(Num(1)))>>),
                     ReturnStmt(2, LiteralExpr(Num(2))) >>
      [] y = 6 -> << ClassStmt("C", 1,
                        << FunctionStmt("m", 2, <<>>,
                              << FunctionStmt("g", 3, <<>>,
                                              <<ReturnStmt(3, LiteralExpr(Num(1)))>>),
                                 ReturnStmt(4, LiteralExpr(Num(2))) >>) >>) >>
      [] y = 7 -> << FunctionStmt("f", 1, <<>>,
                                  <<VarStmt("a", 1, VariableExpr("a", 1))>>),
                     ReturnStmtNoValue(2) >>
      [] y = 8 -> << FunctionStmt("f", 1, <<>>,
                        << IfStmt(LiteralExpr(Bool(TRUE)),
                                  BlockStmt(<< WhileStmt(LiteralExpr(Bool(FALSE)),
                                       ReturnStmt(2, LiteralExpr(Num(1)))) >>)) >>) >>

\* fun g() { while (true) { <d blocks> { R print "no"; } print "no"; } print "no"; }
\* fun e() { while (false) { return 7; } }
\* fun f() { print g(); print "after"; print e(); return 8; print "no"; }
\* print f(); print "end";
\* with R = `return 7;` (y = 1) or `return;` (y = 2)
UnwindProgram(y, d) ==
    LET no(line) == PrintStmt(LiteralExpr(Str("no")))
        R == IF y = 1 THEN ReturnStmt(1, LiteralExpr(Num(7))) ELSE ReturnStmtNoValue(1)
    IN  << FunctionStmt("g", 1, <<>>,
              << WhileStmt(LiteralExpr(Bool(TRUE)),
                           BlockStmt(Nest(d, <<R, no(1)>>) \o <<no(2)>>)),
                 no(3) >>),
           FunctionStmt("e", 4, <<>>,
              << WhileStmt(LiteralExpr(Bool(FALSE)),
                           BlockStmt(<<ReturnStmt(4, LiteralExpr(Num(7)))>>)) >>),
           FunctionStmt("f", 5, <<>>,
              << PrintStmt(CallExpr(VariableExpr("g", 5), 5, <<>>)),
                 PrintStmt(LiteralExpr(Str("after"))),
                 PrintStmt(CallExpr(VariableExpr("e", 6), 6, <<>>)),
                 ReturnStmt(7, LiteralExpr(Num(8))),
                 no(7) >>),
           PrintStmt(CallExpr(VariableExpr("f", 8), 8, <<>>)),
           PrintStmt(LiteralExpr(Str("end"))) >>

\* the lines typed at the prompt; the scanner starts every line at line 1
\* x = 1:  { var a = 1; print a; }      x = 2:  var a = 2; print a;
\* x = 3:  print b;                     x = 4:  { var a = 1; var a = 2; }
\* x = 5:  fun f(a) { print a; } f(1);
PromptLine(x) ==
    CASE x = 1 -> << BlockStmt(<< VarStmt("a", 1, LiteralExpr(Num(1))),
                                  PrintStmt(VariableExpr("a", 1)) >>) >>
      [] x = 2 -> << VarStmt("a", 1, LiteralExpr(Num(2))),
                     PrintStmt(VariableExpr("a", 1)) >>
      [] x = 3 -> << PrintStmt(VariableExpr("b", 1)) >>
      [] x = 4 -> << BlockStmt(<< VarStmt("a", 1, LiteralExpr(Num(1))),
                                  VarStmt("a", 1, LiteralExpr(Num(2))) >>) >>
      [] x = 5 -> << FunctionStmt("f", 1, <<"a">>, <<PrintStmt(VariableExpr("a", 1))>>),
                     ExpressionStmt(CallExpr(VariableExpr("f", 1), 1,
                                             <<LiteralExpr(Num(1))>>)) >>
PromptLines == {Id("repl", TRUE, 0, x, 0) : x \in 1..5}

ProgramIds ==
    {Id("show", one, 0, 0, 0) : one \in BOOLEAN}
    \cup {Id("assign", one, 0, x, 0) : one \in BOOLEAN, x \in AssignCases}
    \cup {Id("nest", FALSE, d, x, 0) : d \in 0..MaxNest, x \in TopPayloads}
    \cup {Id("fnest", FALSE, d, x, 0) : d \in 0..MaxNest, x \in FunctionPayloads}
    \cup {Id("depth", one, d, x, 0) : one \in BOOLEAN, d \in 0..MaxNest, x \in 1..2}
    \cup {Id("counter", one, 0, 0, y) : one \in BOOLEAN, y \in 0..1}
    \cup {Id("for", one, 0, 0, y) : one \in BOOLEAN, y \in 0..1}
    \cup {Id("binary", FALSE, 0, x, y) : x \in OperandCases, y \in OperandCases}
    \cup {Id("truthy", FALSE, 0, x, y) : x \in OperandCases, y \in TruthySites}
    \cup {Id("class", one, 0, x, 0) : one \in BOOLEAN, x \in ClassCases}
    \cup {Id("mixed", FALSE, 0, 0, 0)}
    \cup {Id("logic", FALSE, 0, x, y) : x \in OperandCases, y \in 1..2}
    \cup {Id("call", FALSE, 0, 0, y) : y \in 1..4}
    \cup {Id("scope", FALSE, 0, 0, y) : y \in 1..3}
    \cup {Id("misuse", FALSE, 0, x, y) : x \in OperandCases, y \in 1..2}
    \cup {Id("badscan", FALSE, 0, 0, 0), Id("badparse", FALSE, 0, 0, 0)}
    \cup {Id("dup", FALSE, d, x, 0) : d \in 0..MaxNest, x \in 1..11}
    \cup {Id("ret", FALSE, d, 0, 1) : d \in 0..MaxNest}
    \cup {Id("ret", FALSE, 0, 0, y) : y \in 2..8}
    \cup {Id("unwind", FALSE, d, 0, y) : d \in 0..MaxNest, y \in 1..2}

\* the statement list of a program
Statements(id) ==
    CASE id.fam = "show" -> ShowProgram(id.one)
      [] id.fam = "assign" -> AssignProgram(id.x, id.one)
      [] id.fam = "nest" -> NestProgram(id.d, id.x)
      [] id.fam = "fnest" -> FunctionNestProgram(id.d, id.x)
      [] id.fam = "depth" -> DepthProgram(id.d, id.x, id.one)
      [] id.fam = "counter" -> CounterProgram(id.one, id.y)
      [] id.fam = "for" -> ForProgram(id.one, id.y)
      [] id.fam = "binary" -> BinaryProgram(id.x, id.y)
      [] id.fam = "truthy" -> TruthyProgram(id.x, id.y)
      [] id.fam = "class" -> ClassProgram(id.x, id.one)
      [] id.fam = "mixed" -> MixedProgram
      [] id.fam = "logic" -> LogicProgram(id.x, id.y)
      [] id.fam = "call" -> CallProgram(id.y)
      [] id.fam = "scope" -> ScopeProgram(id.y)
      [] id.fam = "misuse" -> MisuseProgram(id.x, id.y)
      [] id.fam = "repl" -> PromptLine(id.x)
      [] id.fam = "dup" -> DupProgram(id.x, id.d)
      [] id.fam = "ret" -> ReturnProgram(id.y, id.d)
      [] id.fam = "unwind" -> UnwindProgram(id.y, id.d)
      [] id.fam \in {"badscan", "badparse"} -> <<>>

(***************************************************************************)
(* The process: main, Lox::run_file, Lox::run_prompt and Lox::run of       *)
(* main.rs.                                                                *)
(***************************************************************************)
VARIABLES
    mode,         \* "file", "prompt" or "usage": how main was started
    line,         \* the number of the source being run: 1 for a file
    program,      \* the source handed to Lox::run
    phase,        \* "parse", "resolve", "run", or how Lox::run ended
    pc,           \* the index of the next top-level statement
    scopes,       \* Resolver.scopes
    curr_fn,      \* Resolver.curr_fn
    had_error,    \* resolve_all's had_error
    lox,          \* Lox.had_error, Lox.had_runtime_error
    locals,       \* Interpreter.locals
    envs,         \* the environment frames
    environment,  \* Interpreter.environment
    out,          \* the lines printed
    trace,        \* the tracing events
    result,       \* the error the run ended with, [e, m]
    exit_code     \* the exit code of the process, -1 while it runs

vars == <<mode, line, program, phase, pc, scopes, curr_fn, had_error, lox, locals,
          envs, environment, out, trace, result, exit_code>>

NoError == [e |-> "Ok", m |-> ""]

\* Interpreter::new: the globals frame with the two native functions
InterpreterNew ==
    << FrameDefine(FrameDefine(EnvironmentNew, "clock", LoxClock),
                   "assert_eq", LoxAssertEq) >>

\* main with its arguments, Lox::new, and the source Lox::run is first given
Init ==
    /\ mode \in {"file", "prompt", "usage"}
    /\ line = 1
    /\ program \in (IF mode = "file" THEN ProgramIds ELSE PromptLines)
    /\ phase = "parse"
    /\ pc = 1
    /\ scopes = <<>>
    /\ curr_fn = "None"
    /\ had_error = FALSE
    /\ lox = [had_error |-> FALSE, had_runtime_error |-> FALSE]
    /\ locals = [token \in {} |-> 0]
    /\ envs = InterpreterNew
    /\ environment = Globals
    /\ out = <<>>
    /\ trace = <<>>
    /\ result = NoError
    /\ exit_code = -1

\* main with more than one argument: the usage line and exit code 64
Usage ==
    /\ mode = "usage"
    /\ exit_code = -1
    /\ exit_code' = 64
    /\ UNCHANGED <<mode, line, program, phase, pc, scopes, curr_fn, had_error, lox,
                   locals, envs, environment, out, trace, result>>

\* Lox::run up to Resolver::new: scan_tokens and Parser::parse
ScanAndParse ==
    /\ mode # "usage"
    /\ phase = "parse"
    /\ CASE program.fam = "badscan" ->
               /\ phase' = "scan_error"
               /\ lox' = [lox EXCEPT !.had_error = TRUE]
               /\ result' = [e |-> "Fatal", m |-> "Fatal error, exiting"]
         [] program.fam = "badparse" ->
               /\ phase' = "parse_error"
               /\ lox' = [lox EXCEPT !.had_error = TRUE]
               /\ UNCHANGED result
         [] OTHER ->
               /\ phase' = "resolve"
               /\ UNCHANGED <<lox, result>>
    /\ UNCHANGED <<mode, line, program, pc, scopes, curr_fn, had_error, locals, envs,
                   environment, out, trace, exit_code>>

\* one iteration of the loop of Resolver::resolve_all over the program
ResolveStatement ==
    /\ phase = "resolve"
    /\ pc <= Len(Statements(program))
    /\ LET r == ResolveStmt(Statements(program)[pc],
                            [scopes |-> scopes, curr_fn |-> curr_fn, locals |-> locals])
       IN  /\ scopes' = r.rs.scopes
           /\ curr_fn' = r.rs.curr_fn
           /\ locals' = r.rs.locals
           /\ IF r.e = "Panic"
              THEN /\ phase' = "panic"
                   /\ result' = [e |-> "Panic", m |-> "Tried to insert"]
                   /\ UNCHANGED <<pc, had_error>>
              ELSE /\ pc' = pc + 1
                   /\ had_error' = (had_error \/ r.e # "Ok")
                   /\ UNCHANGED <<phase, result>>
    /\ UNCHANGED <<mode, line, program, lox, envs, environment, out, trace, exit_code>>

\* the end of resolve_all, and Lox::run going on to interpret or not
ResolveDone ==
    /\ phase = "resolve"
    /\ pc > Len(Statements(program))
    /\ IF had_error
       THEN /\ phase' = "static_error"
            /\ result' = [e |-> "Resolver", m |-> "One or more errors"]
            /\ lox' = [lox EXCEPT !.had_error = TRUE]
            /\ UNCHANGED pc
       ELSE /\ phase' = "run"
            /\ pc' = 1
            /\ UNCHANGED <<result, lox>>
    /\ UNCHANGED <<mode, line, program, scopes, curr_fn, had_error, locals, envs,
                   environment, out, trace, exit_code>>

\* one iteration of the loop of Interpreter::interpret
ExecuteStatement ==
    /\ phase = "run"
    /\ pc <= Len(Statements(program))
    /\ LET r == Execute(Statements(program)[pc],
                        [envs |-> envs, environment |-> environment, locals |-> locals,
                         out |-> out, trace |-> trace])
       IN  /\ envs' = r.s.envs
           /\ environment' = r.s.environment
           /\ out' = r.s.out
           /\ trace' = r.s.trace
           /\ IF r.e = "Ok"
              THEN /\ pc' = pc + 1
                   /\ UNCHANGED <<phase, result, lox>>
              ELSE /\ phase' = IF r.e = "Panic" THEN "panic" ELSE "runtime_error"
                   /\ result' = [e |-> r.e, m |-> r.m]
                   /\ lox' = IF r.e = "Panic" THEN lox
                             ELSE [lox EXCEPT !.had_runtime_error = TRUE]
                   /\ UNCHANGED pc
    /\ UNCHANGED <<mode, line, program, scopes, curr_fn, had_error, locals, exit_code>>

\* the end of interpret: Ok(())
InterpretDone ==
    /\ phase = "run"
    /\ pc > Len(Statements(program))
    /\ phase' = "done"
    /\ UNCHANGED <<mode, line, program, pc, scopes, curr_fn, had_error, lox, locals,
                   envs, environment, out, trace, result, exit_code>>

\* Lox::run has returned to its caller
Returned == phase \in {"done", "scan_error", "parse_error", "static_error",
                       "runtime_error"}

\* Lox::run_file after run: the exit code main hands to std::process::exit
RunFileExit ==
    /\ mode = "file"
    /\ Returned
    /\ exit_code = -1
    /\ IF phase \in {"done", "parse_error"}
       THEN /\ exit_code' = 0
            /\ UNCHANGED <<phase, result>>
       ELSE IF lox.had_error
            THEN /\ exit_code' = 65
                 /\ UNCHANGED <<phase, result>>
            ELSE IF lox.had_runtime_error
                 THEN /\ exit_code' = 70
                      /\ UNCHANGED <<phase, result>>
                 ELSE /\ phase' = "panic"
                      /\ result' = [e |-> "Panic", m |-> "Error but no error..."]
                      /\ UNCHANGED exit_code
    /\ UNCHANGED <<mode, line, program, pc, scopes, curr_fn, had_error, lox, locals,
                   envs, environment, out, trace>>

\* Lox::run_prompt: the next line is read and handed to run with a new Resolver;
\* the Interpreter, its globals and its resolution map stay
ReadLine ==
    /\ mode = "prompt"
    /\ Returned
    /\ exit_code = -1
    /\ line < MaxLines
    /\ line' = line + 1
    /\ program' \in PromptLines
    /\ phase' = "parse"
    /\ pc' = 1
    /\ scopes' = <<>>
    /\ curr_fn' = "None"
    /\ had_error' = FALSE
    /\ result' = NoError
    /\ UNCHANGED <<mode, lox, locals, envs, environment, out, trace, exit_code>>

\* Lox::run_prompt: readline fails (end of input) and the prompt returns 0
PromptEnd ==
    /\ mode = "prompt"
    /\ Returned
    /\ exit_code = -1
    /\ exit_code' = 0
    /\ UNCHANGED <<mode, line, program, phase, pc, scopes, curr_fn, had_error, lox,
                   locals, envs, environment, out, trace, result>>

\* a panic unwinds out of main: the process ends with Rust's exit code 101
ProcessAbort ==
    /\ phase = "panic"
    /\ exit_code = -1
    /\ exit_code' = 101
    /\ UNCHANGED <<mode, line, program, phase, pc, scopes, curr_fn, had_error, lox,
                   locals, envs, environment, out, trace, result>>

Next ==
    \/ Usage
    \/ ScanAndParse
    \/ ResolveStatement
    \/ ResolveDone
    \/ ExecuteStatement
    \/ InterpretDone
    \/ RunFileExit
    \/ ReadLine
    \/ PromptEnd
    \/ ProcessAbort

Spec == Init /\ [][Next]_vars

\* the model leaves no step of a program out
Modelled == result.e # "Unmodelled"

(***************************************************************************)
(* The properties                                                          *)
(***************************************************************************)
\* the run is over: interpret returned, the resolver refused, or the process aborted
Finished == Returned \/ phase = "panic"

Events(ev) == {i \in 1..Len(trace) : trace[i].ev = ev}

OrderingOps == {"Less", "LessEqual", "Greater", "GreaterEqual"}

\* C1: the program `var a = "global"; { fun show() { print a; } show();
\* var a = "local"; show(); }` prints `global` twice, the closure reading the
\* global `a` on both calls.
C1_ShowPrintsGlobalTwice ==
    (program.fam = "show" /\ Finished)
        => (phase = "done" /\ out = <<"global", "global">>)

\* C2: an assignment with no resolution entry touches the globals frame only:
\* it writes no other frame, and it ends in a Runtime error exactly when the
\* globals frame lacks the name.
C2_UnresolvedAssignWritesGlobals ==
    \A i \in Events("assign") :
        trace[i].distance < 0
            => /\ trace[i].at \in {0, Globals}
               /\ (trace[i].e = "Runtime") = ~trace[i].inGlobals
               /\ trace[i].e \in {"Ok", "Runtime"}

\* C3: every exit from a block or a function call, by the normal end, by a
\* Runtime or Internal error or by a Return, leaves the current frame the one it
\* was at entry, and once interpret has returned the current frame is the
\* globals frame.
C3_FrameRestored ==
    /\ \A i \in Events("block") \cup Events("call") : trace[i].exit = trace[i].entry
    /\ phase # "panic" => environment = Globals

\* a run where blocks were left by a Return and by a Runtime error, calls ended
\* both ways, and interpret has returned the error
C3_ErrorAndReturnExits ==
    /\ phase = "runtime_error"
    /\ environment = Globals
    /\ \E i \in Events("block") : trace[i].e = "Return" /\ trace[i].inner # Globals
    /\ \E i \in Events("block") : trace[i].e = "Runtime"
    /\ \E i \in Events("call") : trace[i].e = "Return"
    /\ \E i \in Events("call") : trace[i].e = "Runtime"

\* C4: in a program the resolver accepted, every lookup and every assignment at
\* a resolved depth d finds the frame d hops up with the name in it: none ends
\* in 'Expected variable', 'Expected a parent' or a failed unwrap.
C4_ResolvedDepthFindsName ==
    /\ \A i \in Events("lookup") : trace[i].distance >= 0 => trace[i].e = "Ok"
    /\ \A i \in Events("assign") :
           trace[i].distance >= 0 => (trace[i].e = "Ok" /\ trace[i].had)
    /\ result.m \notin {"Expected variable", "Expected a parent",
                        "unwrap on a None parent"}

\* C5: two references to the same name at different places of the program are
\* different keys of the resolution map, so recording the second never collides
\* with the first and never aborts.
C5_ReferencesAreDistinctKeys ==
    ~(phase = "panic" /\ result.m = "Tried to insert")

\* C6: a method reached through an instance runs with `this` bound to that
\* instance: every evaluation of `this` yields an Instance.
C6_ThisIsTheReceiver ==
    \A i \in Events("lookup") :
        trace[i].name.lexeme = "this"
            => (trace[i].e = "Ok" /\ IsInstance(trace[i].v))

\* C7: after a Set on an instance, a Get of that field through any other
\* reference to the instance (an alias, `this` in a method) gives the value
\* written: `p.x = 1; print p.x; print q.x;` with q = p prints 1 twice, and a
\* method's `this.x = 1` is seen by `print p.x`.
C7_SetSeenThroughAliases ==
    /\ (program.fam = "class" /\ program.x = 3 /\ Finished)
           => (phase = "done" /\ out = <<"1", "1">>)
    /\ (program.fam = "class" /\ program.x = 4 /\ Finished)
           => (phase = "done" /\ out = <<"1">>)

\* C8: `==` on two instances is reference identity, an instance equal to
\* itself and to its aliases and to nothing else; values of different variants
\* are never equal.
C8_InstanceEqualityIsIdentity ==
    /\ \A i \in Events("binary") :
           (trace[i].op = "EqualEqual" /\ trace[i].e = "Ok")
               => (trace[i].left.k # trace[i].right.k => trace[i].v = Bool(FALSE))
    /\ (program.fam = "class" /\ program.x = 6 /\ Finished)
           => (phase = "done" /\ out = <<"true", "true", "false">>)

\* C9: `<`, `<=`, `>` and `>=` with an operand that is not a Number raise a
\* Runtime error.
C9_OrderingNeedsNumbers ==
    \A i \in Events("binary") :
        (trace[i].op \in OrderingOps
         /\ (trace[i].left.k # "Number" \/ trace[i].right.k # "Number"))
            => trace[i].e = "Runtime"

\* C10: truthiness is total: `!`, the condition of if and while and the left
\* operand of and/or take any value, Callable and Instance included, and never
\* fail on it.
C10_TruthinessTotal ==
    \A i \in Events("truthy") :
        ~(trace[i].e = "Internal" /\ trace[i].m = "Expected a literal")

\* the truthiness the language gives a value: nil and false are falsy
Truthy(v) == ~(v = Null \/ v = Bool(FALSE))

\* C11: in `L and R` with L falsy and in `L or R` with L truthy, R is not
\* evaluated and the result is the value of L; otherwise R is evaluated once,
\* after L, and its value is the result.
C11_ShortCircuit ==
    /\ \A i \in Events("truthy") :
           trace[i].site = "logical" => trace[i].e # "Internal"
    /\ \A i \in Events("logical") :
           IF (trace[i].op = "And") = ~Truthy(trace[i].left)
           THEN ~trace[i].right /\ trace[i].v = trace[i].left
           ELSE trace[i].right
    /\ \A id \in ProgramIds :
           (id.fam = "logic" /\ program = id /\ phase = "done")
               => \E l \in Events("truthy") :
                     /\ trace[l].site = "logical"
                     /\ out = IF (id.y = 1) = ~Truthy(trace[l].v)
                              THEN <<Display(trace[l].v), "0">>
                              ELSE <<"R", "5", "1">>
    /\ (program.fam = "logic" /\ Finished) => phase = "done"

\* C12: in a call the callee is evaluated first, then the arguments from left
\* to right, all before the body; when the number of arguments differs from the
\* arity the call is a Runtime error, the body does not run, and what the
\* arguments did stays done.
C12_CallOrderAndArity ==
    /\ \A i \in Events("apply") :
           IF trace[i].n # Arity(trace[i].callee)
           THEN trace[i].e = "Runtime" /\ ~trace[i].ran
           ELSE trace[i].ran
    /\ (program.fam = "call" /\ Finished)
           => LET \* what printing g shows
                  g == "callable <g>"
              IN  CASE program.y = 1 ->
                         phase = "done" /\ out = <<g, "1", "2", "body">>
                    [] program.y = 2 ->
                         /\ phase = "runtime_error" /\ result.e = "Runtime"
                         /\ out = <<g, "1">>
                    [] program.y = 3 ->
                         /\ phase = "runtime_error" /\ result.e = "Runtime"
                         /\ out = <<g, "1", "2", "3">>
                    [] program.y = 4 ->
                         /\ phase = "runtime_error" /\ result.e = "Runtime"
                         /\ out = <<"1">>

\* a call with one argument too few has ended: the callee and the argument
\* were evaluated, the body was not
C12_ArityMismatchAfterArguments ==
    /\ program.fam = "call" /\ program.y = 2
    /\ phase = "runtime_error"
    /\ out = <<"callable <g>", "1">>
    /\ \E i \in Events("apply") : trace[i].n = 1 /\ ~trace[i].ran

\* C13: calling a value that is not a Callable and reading a property of a
\* value that is not an Instance are Runtime errors that interpret returns:
\* neither aborts the process, neither is an Internal error.
C13_MisuseIsRuntimeError ==
    (program.fam = "misuse" /\ Finished)
        => \/ phase = "done"
           \/ phase = "runtime_error" /\ result.e = "Runtime"

RECURSIVE Chain(_)
\* the frames Environment::get visits from frame env on: env and its ancestors
Chain(env) == IF env = 0 THEN {} ELSE {env} \cup Chain(envs[env].parent)

\* the steps taken while call c ran that are not inside a deeper call
DirectlyIn(c) ==
    {i \in (trace[c].from + 1)..(c - 1) :
        ~\E d \in Events("call") : /\ trace[c].from < d /\ d < c
                                    /\ trace[d].from < i /\ i < d}

\* C14: a user-function call runs its body in a fresh frame whose parent is the
\* function's closure frame, not the caller's frame: the parameters are bound in
\* that frame only, the body's free names are not looked up in the caller's
\* local frames, and what the body defines is in no frame that was there before
\* the call.
C14_CallFrameUnderClosure ==
    /\ \A c \in Events("call") :
          /\ trace[c].frame.parent = trace[c].closure
          /\ DOMAIN trace[c].frame.values
                 = {trace[c].params[i].lexeme : i \in 1..Len(trace[c].params)}
          /\ \A i \in 1..Len(trace[c].params) :
                 (\A j \in (i + 1)..Len(trace[c].params) :
                      trace[c].params[j].lexeme # trace[c].params[i].lexeme)
                     => trace[c].frame.values[trace[c].params[i].lexeme]
                            = trace[c].arguments[i]
          /\ \A i \in (trace[c].from + 1)..(c - 1) :
                 trace[i].ev = "define" => trace[i].env > trace[c].frames
          /\ \A i \in DirectlyIn(c) :
                 (trace[i].ev = "lookup" /\ trace[c].entry \in Chain(trace[i].env))
                     => trace[c].entry \in Chain(trace[c].closure)
    /\ (program.fam = "scope" /\ Finished)
          => CASE program.y = 1 -> phase = "done" /\ out = <<"global">>
               [] program.y = 2 ->
                     /\ phase = "runtime_error" /\ result.e = "Runtime"
                     /\ out = <<"1">>
               [] program.y = 3 ->
                     /\ phase = "runtime_error" /\ result.e = "Runtime"
                     /\ out = <<>>

\* g, holding a local x, has called f, which read the global x
C14_CalleeReadsPastCaller ==
    /\ program.fam = "scope" /\ program.y = 1
    /\ phase = "done"
    /\ out = <<"global">>
    /\ \E c \in Events("call") :
          /\ trace[c].entry # Globals
          /\ trace[c].closure = Globals
          /\ \E i \in DirectlyIn(c) : trace[i].ev = "lookup" /\ trace[i].e = "Ok"

\* C15: the closure returned by makeCounter keeps incrementing the `i` of the
\* frame it captured after makeCounter has returned: the program resolves, runs
\* without error and prints 1, 2, 3.
C15_CounterCounts ==
    (program.fam = "counter" /\ Finished)
        => (phase = "done" /\ out = <<"1", "2", "3">>)

\* C16: a script file ends with exit code 65 whenever scanning, parsing or
\* resolving reported an error, and then no statement was executed; with 70 when
\* evaluation raised a runtime error; with 0 only when there was no error.
C16_ExitCodes ==
    (mode = "file" /\ exit_code # -1)
        => /\ phase \in {"scan_error", "parse_error", "static_error"}
                 => (exit_code = 65 /\ trace = <<>> /\ out = <<>>)
           /\ phase = "runtime_error" => exit_code = 70
           /\ exit_code = 0 => phase = "done"

\* C17: at the prompt a line that resolves and runs without error in a fresh
\* interpreter does so after any earlier lines too, whatever they recorded.
C17_PromptLinesIndependent ==
    (mode = "prompt" /\ Finished)
        => LET alone == ResolveAllFrom(Statements(program), 1,
                                       [scopes |-> <<>>, curr_fn |-> "None",
                                        locals |-> [token \in {} |-> 0]], FALSE)
               ran == ExecStatements(Statements(program), 1,
                                     [envs |-> InterpreterNew, environment |-> Globals,
                                      locals |-> alone.rs.locals, out |-> <<>>,
                                      trace |-> <<>>])
           IN  (alone.e = "Ok" /\ ran.e = "Ok") => phase = "done"

\* C18: a name declared twice in one non-global scope, by var, fun, class or
\* parameter declarations, makes the resolver fail and nothing of the program
\* runs; declared twice at global scope it is accepted, and the later
\* definition replaces the earlier one in the globals frame.
C18_DuplicateDeclarations ==
    program.fam = "dup"
        => IF program.d >= 1 \/ program.x >= 10
           THEN /\ phase \in {"parse", "resolve", "static_error"}
                /\ out = <<>> /\ trace = <<>>
                /\ "a" \notin DOMAIN envs[Globals].values
           ELSE Finished
                    => /\ phase = "done"
                       /\ out = <<"start">>
                       /\ LET a == envs[Globals].values["a"]
                          IN  CASE (program.x - 1) % 3 = 0 -> a = Num(2)
                                [] (program.x - 1) % 3 = 1 ->
                                      IsCallable(a) /\ a.c = "fun"
                                [] (program.x - 1) % 3 = 2 ->
                                      IsCallable(a) /\ a.c = "class"

\* a block that declares `a` twice has been refused
C18_LocalDuplicateRefused ==
    /\ program.fam = "dup" /\ program.d >= 1 /\ program.x <= 9
    /\ phase = "static_error"
    /\ exit_code = 65

RECURSIVE BareReturn(_)
\* the statement holds a `return` that no function or method body encloses:
\* the statements resolve_stmt walks into without passing resolve_func
BareReturn(statement) ==
    CASE statement.t = "Return" -> TRUE
      [] statement.t = "Block" ->
            \E i \in 1..Len(statement.statements) : BareReturn(statement.statements[i])
      [] statement.t = "If" ->
            \/ BareReturn(statement.then_branch)
            \/ statement.hasElse /\ BareReturn(statement.else_branch)
      [] statement.t = "While" -> BareReturn(statement.body)
      [] OTHER -> FALSE

\* C19: the resolver refuses a `return` exactly when no function or method
\* body encloses it, through any nesting of blocks, `if` and `while`; once a
\* function declaration has been resolved the enclosing-function kind is the
\* surrounding one again, so between top-level statements it is None and a
\* `return` after the outermost function is refused.
C19_ReturnOnlyInFunctions ==
    (program.fam = "ret" /\ phase = "resolve" /\ pc <= Len(Statements(program)))
        => LET statement == Statements(program)[pc]
               r == ResolveStmt(statement, [scopes |-> scopes, curr_fn |-> curr_fn,
                                            locals |-> locals])
           IN  /\ curr_fn = "None"
               /\ BareReturn(statement) => r.e = "Err"
               /\ program.y \in {4, 6, 8} => r.e = "Ok" /\ r.rs.curr_fn = "None"

MissingGets == {i \in Events("get") : ~trace[i].isField /\ ~trace[i].isMethod}

PropertyTokens ==
    {[typ |-> k.typ, lexeme |-> lexeme, literal |-> k.literal, line |-> k.line] :
        k \in {[typ |-> "Identifier", literal |-> "Null", line |-> 0],
                [typ |-> "LeftParen", literal |-> "666", line |-> 42]},
        lexeme \in {"x", "foo"}}

\* C22: after sets, get(t) returns the value of the latest set whose token has
\* t's lexeme, whatever the type, literal and line of the tokens; a later set
\* with the same lexeme replaces the value, sets with other lexemes leave it.
C22_GetFindsLatestSet ==
    /\ \A n \in DOMAIN envs[Globals].values :
          LET instance == envs[Globals].values[n]
              Got(i, t) == LET g == InstanceGet(i, t) IN <<g.v, g.e>>
          IN  IsInstance(instance)
                  => \A t1 \in PropertyTokens, t2 \in PropertyTokens,
                        t \in PropertyTokens :
                        LET one == InstanceSet(instance, t1, Num(42))
                            two == InstanceSet(one, t2, Str("42"))
                        IN  /\ Got(one, t) = IF t.lexeme = t1.lexeme
                                              THEN <<Num(42), "Ok">>
                                              ELSE Got(instance, t)
                            /\ Got(two, t) = IF t.lexeme = t2.lexeme
                                              THEN <<Str("42"), "Ok">>
                                              ELSE Got(one, t)
    /\ (program.fam = "class" /\ program.x = 8 /\ Finished)
           => (phase = "done" /\ out = <<"3", "2">>)

\* p.x was set to 1 and then to 3, p.y to 2, and both have been read
C22_FieldReplaced ==
    /\ program.fam = "class" /\ program.x = 8 /\ phase = "done"
    /\ envs[Globals].values["p"].fields = [f \in {"x", "y"} |->
                                             IF f = "x" THEN Num(3) ELSE Num(2)]
    /\ Len(out) = 2

\* C23: a Return signal is never the result of interpret: a Return raised in a
\* user-function call is consumed by that call, and a `return` executed
\* outside any call, as a statement handed to interpret, is reported as an
\* Internal error, not as a Return and not as a Runtime error.
C23_ReturnNeverEscapes ==
    /\ Finished => result.e # "Return"
    /\ \A i \in Events("call") :
          trace[i].e = "Return"
              => trace[i].result = "Ok"
    /\ phase = "run"
           => Execute(ReturnStmt(1, LiteralExpr(Num(1))),
                      [envs |-> envs, environment |-> environment, locals |-> locals,
                       out |-> out, trace |-> trace]).e = "Internal"

\* C24: assign(name, v) changes exactly the binding of `name` in the nearest
\* frame of the chain (the frame itself, then its ancestors in order) that has
\* the name, and nothing else; when no frame of the chain has it, the result is
\* a Runtime error and no frame is changed.
C24_AssignWritesNearest ==
    /\ \A env \in 1..Len(envs) :
          \A n \in UNION {DOMAIN envs[f].values : f \in 1..Len(envs)} \cup {"zz"} :
             LET r == EnvAssign(envs, env, Ident(n, 1), Num(99))
                 holders == {f \in Chain(env) : n \in DOMAIN envs[f].values}
             IN  IF holders = {}
                 THEN r.e = "Runtime" /\ r.h = envs
                 ELSE LET nearest == CHOOSE f \in holders : holders \subseteq Chain(f)
                      IN  /\ r.e = "Ok"
                          /\ r.at = nearest
                          /\ r.h = [envs EXCEPT ![nearest].values[n] = Num(99)]
    /\ \A i \in Events("assign") :
          trace[i].distance = -1
              => IF trace[i].e = "Ok" THEN trace[i].had
                 ELSE trace[i].e = "Runtime" /\ trace[i].at = 0

\* an unresolved assignment in a function body has written the binding of a
\* frame further up the chain
C24_AssignedInAncestor ==
    /\ program.fam = "assign" /\ program.x = 6 /\ phase = "done"
    /\ \E i \in Events("assign") :
          /\ trace[i].distance = -1 /\ trace[i].e = "Ok"
          /\ trace[i].at # trace[i].env
          /\ envs[trace[i].at].values["a"] = Num(2)

\* C25: assign_at(d, name, v) and get_at(d, name) work on the frame exactly d
\* parent hops above the receiver and on no other; when that frame has no
\* binding of the name both return an Internal error and assign_at creates no
\* binding.
C25_AtDepthOnly ==
    \A env \in 1..Len(envs), d \in 0..MaxNest :
       \A n \in UNION {DOMAIN envs[f].values : f \in 1..Len(envs)} \cup {"zz"} :
          LET target == Ancestor(envs, env, d)
              a == EnvAssignAt(envs, env, d, n, Num(99))
              g == EnvGetAt(envs, env, d, n)
          IN  target # 0
                  => IF n \in DOMAIN envs[target].values
                     THEN /\ a.e = "Ok"
                          /\ a.h = [envs EXCEPT ![target].values[n] = Num(99)]
                          /\ g.e = "Ok" /\ g.v = envs[target].values[n]
                     ELSE /\ g.e = "Internal"
                          /\ a.e = "Internal"
                          /\ a.h = envs

\* C26: a Set whose object is an Instance succeeds and yields the assigned
\* value whatever the shape of the object expression (a variable, `this`, a
\* Get chain, a call result), and writes the field only: it rebinds no
\* variable of any frame.
C26_SetOnAnyInstanceExpression ==
    /\ \A i \in Events("set") : trace[i].e = "Ok" /\ trace[i].at = 0
    /\ (program.fam = "class" /\ program.x \in {9, 10} /\ ~program.one /\ Finished)
           => (phase = "done" /\ out = <<"1">>)

\* C27: each call of a class gives a new instance with an empty field map, and
\* field writes to one instance never change the fields seen on another
\* instance of the class: the Point program prints 9, and a second Point() has
\* neither x nor y.
C27_InstancesAreSeparate ==
    /\ \A n \in DOMAIN envs[Globals].values :
          LET class == envs[Globals].values[n]
          IN  (IsCallable(class) /\ class.c = "class")
                  => LET made == Call(class, <<>>,
                                      [envs |-> envs, environment |-> environment,
                                       locals |-> locals, out |-> out,
                                       trace |-> trace])
                     IN  /\ made.e = "Ok" /\ IsInstance(made.v)
                         /\ made.v.fields = EmptyMap
                         /\ made.s.envs = envs
    /\ (program.fam = "class" /\ program.x = 11)
           => /\ (phase = "run" /\ pc = 7)
                     => /\ out = <<"9">>
                        /\ envs[Globals].values["q"].fields = EmptyMap
              /\ Finished
                     => /\ phase = "runtime_error"
                        /\ result = [e |-> "Runtime", m |-> "no such method or field"]
                        /\ out = <<"9", "4", "1">>
                        /\ envs[Globals].values["p"].fields =
                               [f \in {"x", "y"} |-> IF f = "x" THEN Num(4) ELSE Num(5)]
                        /\ envs[Globals].values["q"].fields = [f \in {"x"} |-> Num(1)]

\* the second Point has been made and written while the first holds x and y
C27_TwoPoints ==
    /\ program.fam = "class" /\ program.x = 11 /\ phase = "runtime_error"
    /\ DOMAIN envs[Globals].values["p"].fields = {"x", "y"}
    /\ DOMAIN envs[Globals].values["q"].fields = {"x"}

\* C28: bind(instance) gives a new function whose closure is a fresh frame
\* holding exactly `this` -> instance, with the original closure as parent;
\* the original function, its closure frame and the class's method table stay
\* as they were, so binding one method to two instances gives two callables
\* with their own `this`.
C28_BindMakesThisFrame ==
    \A n \in DOMAIN envs[Globals].values :
       LET instance == envs[Globals].values[n]
       IN  IsInstance(instance)
               => \A m \in DOMAIN instance.class.methods :
                     LET function == instance.class.methods[m]
                         other == InstanceSet(instance, Ident("other", 1), Num(1))
                         one == Bind(function, instance, envs)
                         two == Bind(function, other, one.h)
                     IN  /\ one.v.declaration = function.declaration
                         /\ one.v.closure \notin 1..Len(envs)
                         /\ one.h[one.v.closure] =
                                [values |-> [t \in {"this"} |-> instance],
                                 parent |-> function.closure]
                         /\ SubSeq(one.h, 1, Len(envs)) = envs
                         /\ two.v.closure \notin 1..Len(one.h)
                         /\ SubSeq(two.h, 1, Len(one.h)) = one.h
                         /\ two.h[two.v.closure].values["this"] = other
                         /\ two.h[one.v.closure].values["this"] = instance

\* an instance of a class with a method is bound in the globals frame and
\* has a field of its own
C28_InstanceWithMethod ==
    \E n \in DOMAIN envs[Globals].values :
       /\ IsInstance(envs[Globals].values[n])
       /\ envs[Globals].values[n].class.methods # EmptyMap
       /\ envs[Globals].values[n].fields # EmptyMap

\* C29: when the resolver has finished a statement, with success or with a
\* static error raised inside a nested block or function body, its scope stack
\* is as deep as before the statement: between top-level statements it is
\* empty, so the statements that follow are resolved against the right scopes.
C29_ScopeDepthKept ==
    phase = "resolve" => Len(scopes) = 0

\* C30: a `return` executed inside nested blocks and `while` loops of a function
\* body, while other calls are active further up, ends exactly the innermost
\* active call: that call yields the returned value (Null for a return without
\* value or a body that ends without return), the loops and blocks of the body
\* run no further statement, and the caller goes on after the call in its own
\* frame.
C30_ReturnEndsInnermostCall ==
    /\ \A i \in Events("call") :
          /\ trace[i].e = "Return"
                => trace[i].result = "Ok" /\ trace[i].exit = trace[i].entry
          /\ trace[i].e = "Ok"
                => /\ trace[i].result = "Ok" /\ trace[i].v = Null
                   /\ trace[i].exit = trace[i].entry
    /\ program.fam = "unwind"
           => /\ \A i \in 1..Len(out) : out[i] # "no"
              /\ Finished
                    => /\ phase = "done"
                       /\ out = << IF program.y = 1 THEN "7" ELSE "nil",
                                    "after", "nil", "8", "end" >>

\* g has returned from the innermost of its blocks inside the loop while the
\* call of f was active, and f has gone on and returned in its turn
C30_ReturnedThroughLoop ==
    /\ program.fam = "unwind" /\ program.d = MaxNest /\ phase = "done"
    /\ Cardinality({i \in Events("call") : trace[i].e = "Return"}) = 2
    /\ \E i \in Events("call") : trace[i].e = "Ok"

=============================================================================
